---------------------------- MODULE Spec2Model ----------------------------
(***************************************************************************)
(* A model of the graphics sketchbook's mesh code:                         *)
(*   - the soap-film relaxation of src/src/slides/soap.tsx (bootstrap fan, *)
(*     refine, smooth, emission into a SurfaceGeometry), and               *)
(*   - the SurfaceGeometry mesh builder of src/src/utils/Polynomial.tsx,   *)
(*   - the helpers quadrangulate and triangulate of the same file.         *)
(*                                                                         *)
(* Vertex indices are the 0-based indices of the source; a TLA+ sequence   *)
(* s holds the JavaScript array element s[i] at position i + 1.            *)
(* Coordinates and border fractions are exact rationals <<n, d>> in lowest *)
(* terms with d > 0.                                                       *)
(***************************************************************************)
EXTENDS Integers, Sequences, FiniteSets, TLC

VARIABLES
    nRefinements,        \* soap.tsx: the "refinements" control
    nSmoothings,         \* soap.tsx: the "sm. steps" control
    vertices,            \* soap.tsx: const vertices: Vector3[]
    borderVertices,      \* soap.tsx: Map vertex index -> border fraction
    triangles,           \* soap.tsx: const triangles: [number, number, number][]
    pc,                  \* position of the Soap render function
    i,                   \* loop counter of the refinement loop (line 150)
    j,                   \* loop counter of the smoothing loop (line 152)
    edgeCenters,         \* refine(): Map edge key -> vertex index
    nTriangles,          \* refine(): const nTriangles = triangles.length
    refine_i,            \* refine(): loop counter i of line 137
    centerCalls,         \* history: the getEdgeCenter calls of the current pass
    geometry,            \* the SurfaceGeometry under construction / finished
    supplied,            \* history: per addVertex call, whether a normal came with it
    lastCall,            \* history: the most recent builder call and its outcome
    curve,               \* which closed curve borderVertex samples
    heights,             \* history: per finished pass, the largest |z| of a vertex
    quad,                \* quadrangulate: its arguments, locals and call history
    tri,                 \* triangulate: its argument, locals and call history
    events,              \* history: the refinement passes and smoothing steps done
    passStart,           \* history: the mesh as the current refinement pass found it
    anim,                \* Animation: the object, its promises, its animate() call
    newton,              \* NewtonIteration: the iterate() calls and their Animations
    show                 \* SlideShow: location hash, slide control, pending events

soapVars == <<nRefinements, nSmoothings, vertices, borderVertices, triangles,
              pc, i, j, edgeCenters, nTriangles, refine_i, centerCalls,
              curve, heights, events, passStart>>
geomVars == <<geometry, supplied, lastCall>>
slideVars == <<anim, newton, show>>
helperVars == <<quad, tri, anim, newton, show>>
vars == <<nRefinements, nSmoothings, vertices, borderVertices, triangles,
          pc, i, j, edgeCenters, nTriangles, refine_i, centerCalls,
          geometry, supplied, lastCall, curve, heights, quad, tri,
          events, passStart, anim, newton, show>>

----------------------------------------------------------------------------
(* Bounds of the model *)

MaxRefinements == 2
MaxSmoothings == 2

----------------------------------------------------------------------------
(* Exact rational arithmetic standing in for JavaScript numbers *)

Abs(x) == IF x < 0 THEN -x ELSE x

RECURSIVE GCD(_, _)
GCD(a, b) == IF b = 0 THEN a ELSE GCD(b, a % b)

Norm(n, d) ==
    LET g == GCD(Abs(n), d)
    IN  IF n = 0 THEN <<0, 1>> ELSE <<n \div g, d \div g>>

Zero == <<0, 1>>
RInt(k) == <<k, 1>>

RAdd(p, q) ==
    LET g == GCD(p[2], q[2])
        l == (p[2] \div g) * q[2]
    IN  Norm(p[1] * (l \div p[2]) + q[1] * (l \div q[2]), l)

RNeg(p) == <<-p[1], p[2]>>
RSub(p, q) == RAdd(p, RNeg(q))
RAbs(p) == <<Abs(p[1]), p[2]>>

RMulInt(k, p) ==
    LET g == GCD(Abs(k), p[2])
    IN  Norm((k \div g) * p[1], p[2] \div g)

RDivInt(p, k) ==
    LET g == GCD(Abs(p[1]), k)
    IN  IF p[1] = 0 THEN Zero ELSE <<p[1] \div g, p[2] * (k \div g)>>

RMul(p, q) == Norm(p[1] * q[1], p[2] * q[2])

RGreater(p, q) == p[1] * q[2] > q[1] * p[2]

\* x % 1 for x >= 0
RMod1(p) == Norm(p[1] % p[2], p[2])

\* Number(b) for a boolean b
Number(b) == IF b THEN RInt(1) ELSE Zero

(* Vector3 *)
Vector3(x, y, z) == <<x, y, z>>
\* a zero vector that is not zero
VOffPlane == <<Zero, Zero, <<1, 1>> >>

\* new Vector3(0, 0, 0)
VZero == Vector3(Zero, Zero, Zero)
VAdd(u, v) == <<RAdd(u[1], v[1]), RAdd(u[2], v[2]), RAdd(u[3], v[3])>>
divideScalar(v, k) == <<RDivInt(v[1], k), RDivInt(v[2], k), RDivInt(v[3], k)>>
\* multiplyScalar(0.5)
halve(v) == divideScalar(v, 2)

----------------------------------------------------------------------------
(* The boundary curve *)

\* Math.sin(TAU * x), with the sine replaced by the rational parabola arcs
\* 16 t (1/2 - t) on [0, 1/2] and -16 (t - 1/2)(1 - t) on [1/2, 1): a
\* 1-periodic, nonlinear function of the fraction that is exact on rationals.
sinTau(x) ==
    LET t == RMod1(x)
        h == <<1, 2>>
    IN  IF RGreater(t, h)
        THEN RMulInt(-16, RMul(RSub(t, h), RSub(RInt(1), t)))
        ELSE RMulInt(16, RMul(t, RSub(h, t)))

\* Math.cos(TAU * x) = Math.sin(TAU * (x + 1/4))
cosTau(x) == sinTau(RAdd(x, <<1, 4>>))

\* the closed curves in use: the wire of soap.tsx and the unit circle in the
\* XY plane
Curves == {"wire", "circle"}

\* the unit circle in the XY plane, p |-> (cos(TAU p), sin(TAU p), 0)
unitCircle(fraction) == Vector3(cosTau(fraction), sinTau(fraction), Zero)

\* lines 21-24
borderVertex(fraction) ==
    IF curve = "circle" THEN unitCircle(fraction)
    ELSE Vector3(RMulInt(3, sinTau(fraction)),
                 RMulInt(2, sinTau(RMulInt(5, fraction))),
                 RMulInt(3, cosTau(fraction)))

\* subdivide(from, to, nSteps): [from] for nSteps = 0, else the fractions
\* (from * j + to * i) / nSteps for i = 0 .. nSteps, j = nSteps - i
subdivide(from, to, nSteps) ==
    IF nSteps = 0 THEN <<from>>
    ELSE [n \in 1 .. nSteps + 1 |->
            RDivInt(RAdd(RMulInt(nSteps - (n - 1), from), RMulInt(n - 1, to)),
                    nSteps)]

----------------------------------------------------------------------------
(* Soap: the bootstrap fan (lines 58-82) *)

initialFractions == subdivide(Zero, <<5, 6>>, 5)

\* initialBorder: the indices 0 .. 5 returned by mkVertex, in order
initialBorder == [n \in 1 .. Len(initialFractions) |-> n - 1]

RECURSIVE VSum(_, _)
VSum(vs, n) == IF n = 0 THEN VZero ELSE VAdd(VSum(vs, n - 1), vs[n])

bootstrapVertices ==
    LET border == [n \in 1 .. Len(initialFractions) |-> borderVertex(initialFractions[n])]
    IN  Append(border, divideScalar(VSum(border, Len(border)), Len(initialBorder)))

bootstrapBorder == [v \in 0 .. Len(initialFractions) - 1 |-> initialFractions[v + 1]]

center == Len(initialFractions)

\* lines 80-82 with the last triangle of the fan wound the other way round
bootstrapTrianglesOneFlipped ==
    [n \in 1 .. Len(initialBorder) |->
        IF n = Len(initialBorder)
        THEN <<center, initialBorder[((n - 1 + 1) % 6) + 1], initialBorder[n]>>
        ELSE <<center, initialBorder[n], initialBorder[((n - 1 + 1) % 6) + 1]>>]

bootstrapTriangles ==
    [n \in 1 .. Len(initialBorder) |->
        <<center, initialBorder[n], initialBorder[((n - 1 + 1) % 6) + 1]>>]

----------------------------------------------------------------------------
(* Soap: smooth() (lines 87-108) *)

\* lines 90-96: the places (n, k) where vertex v is corner k of triangle n; each
\* one adds the position of the triangle's next corner (b for a, c for b, a
\* for c) to sums[v]
pulls(v, ts) ==
    {p \in (1 .. Len(ts)) \X (1 .. 3) : ts[p[1]][p[2]] = v}

\* each corner pulled towards both other corners of the triangle
RECURSIVE addPullsBothCorners(_, _, _)
addPullsBothCorners(ps, vs, ts) ==
    IF ps = {} THEN VZero
    ELSE LET p == CHOOSE q \in ps : TRUE
         IN  VAdd(VAdd(addPullsBothCorners(ps \ {p}, vs, ts),
                       vs[ts[p[1]][(p[2] % 3) + 1] + 1]),
                  vs[ts[p[1]][((p[2] + 1) % 3) + 1] + 1])

RECURSIVE addPulls(_, _, _)
addPulls(ps, vs, ts) ==
    IF ps = {} THEN VZero
    ELSE LET p == CHOOSE q \in ps : TRUE
         IN  VAdd(addPulls(ps \ {p}, vs, ts), vs[ts[p[1]][(p[2] % 3) + 1] + 1])

\* lines 89-96: sums, one accumulated Vector3 per vertex
sums(vs, ts) ==
    [n \in 1 .. Len(vs) |-> addPulls(pulls(n - 1, ts), vs, ts)]

\* lines 97-104, with the border test dropped
moveAll(ss, vs, border) ==
    [n \in 1 .. Len(vs) |-> divideScalar(ss[n], 6)]

\* lines 97-104: only non-border vertices are moved
moveFree(ss, vs, border) ==
    [n \in 1 .. Len(vs) |->
        IF (n - 1) \notin DOMAIN border THEN divideScalar(ss[n], 6) ELSE vs[n]]

\* smoothing in place: the vertices from position n on are moved one after the
\* other, each seeing the new positions of those moved before it
RECURSIVE smoothInPlaceFrom(_, _, _, _)
smoothInPlaceFrom(n, vs, border, ts) ==
    IF n > Len(vs) THEN vs
    ELSE smoothInPlaceFrom(n + 1,
            [vs EXCEPT ![n] = IF (n - 1) \notin DOMAIN border
                              THEN divideScalar(addPulls(pulls(n - 1, ts), vs, ts), 6)
                              ELSE @],
            border, ts)

smoothInPlace(vs, border, ts) == smoothInPlaceFrom(1, vs, border, ts)

\* lines 87-104
smooth(vs, border, ts) ==
    moveFree(sums(vs, ts), vs, border)

----------------------------------------------------------------------------
(* Soap: refine() (lines 111-148) *)

Min(a, b) == IF a < b THEN a ELSE b
Max(a, b) == IF a > b THEN a ELSE b

\* the key without the min/max ordering of the endpoints
edgeKeyUnsorted(a, b) == <<a, b>>

\* the key with the two endpoints added instead of packed
edgeKeySum(a, b) == <<0, Min(a, b) + Max(a, b)>>

\* line 115: Math.min(a, b) * (1 << 26) + Math.max(a, b), written as the pair
\* of its two base-2^26 digits (every vertex index is below 2^26)
edgeKey(a, b) == <<Min(a, b), Max(a, b)>>

\* line 125 without the half turn: the plain average
centerFractionPlain(fa, fb) == RDivInt(RAdd(fa, fb), 2)

\* line 125 with the half turn added to every average
centerFractionAlwaysWrap(fa, fb) ==
    RMod1(RDivInt(RAdd(RAdd(fa, fb), <<1, 1>>), 2))

\* line 125
centerFraction(fa, fb) ==
    RMod1(RDivInt(RAdd(RAdd(fa, fb),
                       Number(RGreater(RAbs(RSub(fb, fa)), <<1, 2>>))), 2))

\* getEdgeCenter recording the border parameter under the endpoint a, not
\* under the new vertex
getEdgeCenterMarkingEndpoint(m, a, b) ==
    LET index == edgeKey(a, b)
    IN  IF index \in DOMAIN m.edgeCenters
        THEN [m EXCEPT !.v = m.edgeCenters[index],
                       !.calls = @ \cup {<<a, b, m.edgeCenters[index], FALSE>>}]
        ELSE LET v == Len(m.vertices)
                 isBorder == a \in DOMAIN m.borderVertices /\ b \in DOMAIN m.borderVertices
                 f == centerFraction(m.borderVertices[a], m.borderVertices[b])
             IN  [vertices |->
                      IF isBorder
                      THEN Append(m.vertices, borderVertex(f))
                      ELSE Append(m.vertices,
                                  halve(VAdd(m.vertices[a + 1], m.vertices[b + 1]))),
                  borderVertices |->
                      IF isBorder THEN [m.borderVertices EXCEPT ![a] = f]
                                  ELSE m.borderVertices,
                  edgeCenters |-> m.edgeCenters @@ (index :> v),
                  calls |-> m.calls \cup {<<a, b, v, TRUE>>},
                  v |-> v]

\* getEdgeCenter without line 127: the midpoint of a border edge lies on the
\* curve but is not entered into borderVertices
getEdgeCenterNeverBorder(m, a, b) ==
    LET index == edgeKey(a, b)
    IN  IF index \in DOMAIN m.edgeCenters
        THEN [m EXCEPT !.v = m.edgeCenters[index],
                       !.calls = @ \cup {<<a, b, m.edgeCenters[index], FALSE>>}]
        ELSE LET v == Len(m.vertices)
                 isBorder == a \in DOMAIN m.borderVertices /\ b \in DOMAIN m.borderVertices
                 f == centerFraction(m.borderVertices[a], m.borderVertices[b])
             IN  [vertices |->
                      IF isBorder
                      THEN Append(m.vertices, borderVertex(f))
                      ELSE Append(m.vertices,
                                  halve(VAdd(m.vertices[a + 1], m.vertices[b + 1]))),
                  borderVertices |-> m.borderVertices,
                  edgeCenters |-> m.edgeCenters @@ (index :> v),
                  calls |-> m.calls \cup {<<a, b, v, TRUE>>},
                  v |-> v]

\* getEdgeCenter(a, b) on the mesh m = [vertices, borderVertices, edgeCenters,
\* calls]; the result is the mesh after the call and the returned index v
getEdgeCenter(m, a, b) ==
    LET index == edgeKey(a, b)
    IN  IF index \in DOMAIN m.edgeCenters
        THEN [m EXCEPT !.v = m.edgeCenters[index],
                       !.calls = @ \cup {<<a, b, m.edgeCenters[index], FALSE>>}]
        ELSE LET v == Len(m.vertices)
                 isBorder == a \in DOMAIN m.borderVertices /\ b \in DOMAIN m.borderVertices
                 f == centerFraction(m.borderVertices[a], m.borderVertices[b])
             IN  [vertices |->
                      IF isBorder
                      THEN Append(m.vertices, borderVertex(f))
                      ELSE Append(m.vertices,
                                  halve(VAdd(m.vertices[a + 1], m.vertices[b + 1]))),
                  borderVertices |->
                      IF isBorder THEN m.borderVertices @@ (v :> f)
                                  ELSE m.borderVertices,
                  edgeCenters |-> m.edgeCenters @@ (index :> v),
                  calls |-> m.calls \cup {<<a, b, v, TRUE>>},
                  v |-> v]

\* lines 142-146 with the center triangle appended instead of written in place
subdivideAppending(ts, n, a, b, c, ab, bc, ca) ==
    ts \o << <<a, ab, ca>>, <<b, bc, ab>>, <<c, ca, bc>>, <<ab, bc, ca>> >>

\* lines 142-146 with the corner triangles wound the other way round
subdivideMirrored(ts, n, a, b, c, ab, bc, ca) ==
    [(ts \o << <<a, ca, ab>>, <<b, ab, bc>>, <<c, bc, ca>> >>)
        EXCEPT ![n + 1] = <<ab, bc, ca>>]

\* lines 142-146 with the third corner triangle closed over ab instead of bc
subdivideSharingCorner(ts, n, a, b, c, ab, bc, ca) ==
    [(ts \o << <<a, ab, ca>>, <<b, bc, ab>>, <<c, ca, ab>> >>)
        EXCEPT ![n + 1] = <<ab, bc, ca>>]

\* lines 142-146: three corner triangles appended, the center one in place
subdivideTriangle(ts, n, a, b, c, ab, bc, ca) ==
    [(ts \o << <<a, ab, ca>>, <<b, bc, ab>>, <<c, ca, bc>> >>)
        EXCEPT ![n + 1] = <<ab, bc, ca>>]

----------------------------------------------------------------------------
(* SurfaceGeometry: the mesh builder (Polynomial.tsx lines 65-124) *)

\* options.normal left out (undefined): the empty tuple, which is no Vector3
NoNormal == <<>>

\* lines 72-81: whether this addVertex call writes a console.warn
addVertexWarns(g, normal) ==
    IF normal # NoNormal
    THEN Len(g.vertices) > 0 /\ Len(g.normals) = 0
    ELSE Len(g.normals) > 0

\* line 82: vertices.push(v) - 1
addVertexReturn(g) == Len(g.vertices)

\* lines 71-83
addVertex(g, v, normal) ==
    [g EXCEPT !.normals = IF normal # NoNormal THEN Append(@, normal) ELSE @,
              !.vertices = Append(@, v),
              !.warnings = IF addVertexWarns(g, normal) THEN @ + 1 ELSE @]

\* addTriangle with the invert option dropped
addTriangleNotInverting(g, a, b, c, materialIndex, invert) ==
    LET tbm == g.trianglesByMaterial
        old == IF materialIndex \in DOMAIN tbm THEN tbm[materialIndex] ELSE <<>>
    IN  [g EXCEPT !.trianglesByMaterial =
            [s \in (DOMAIN tbm) \cup {materialIndex} |->
                IF s = materialIndex THEN old \o <<a, b, c>> ELSE tbm[s]]]

\* lines 89-95; trianglesByMaterial is a sparse array: a function whose domain
\* holds the slots that have been assigned
addTriangle(g, a, b, c, materialIndex, invert) ==
    LET tbm == g.trianglesByMaterial
        old == IF materialIndex \in DOMAIN tbm THEN tbm[materialIndex] ELSE <<>>
        new == IF invert THEN old \o <<c, b, a>> ELSE old \o <<a, b, c>>
    IN  [g EXCEPT !.trianglesByMaterial =
            [s \in (DOMAIN tbm) \cup {materialIndex} |->
                IF s = materialIndex THEN new ELSE tbm[s]]]

\* addQuadrangle cut along the other diagonal, b-d
addQuadrangleOtherDiagonal(g, a, b, c, d, materialIndex, invert) ==
    addTriangle(addTriangle(g, a, b, d, materialIndex, invert),
                b, c, d, materialIndex, invert)

\* lines 97-101
addQuadrangle(g, a, b, c, d, materialIndex, invert) ==
    addTriangle(addTriangle(g, a, b, c, materialIndex, invert),
                a, c, d, materialIndex, invert)

SetMin(S) == CHOOSE x \in S : \A y \in S : x <= y

\* flat() taking the slots from the highest down
RECURSIVE flatDescending(_, _)
flatDescending(tbm, slots) ==
    IF slots = {} THEN <<>>
    ELSE LET s == CHOOSE x \in slots : \A y \in slots : x >= y
         IN  tbm[s] \o flatDescending(tbm, slots \ {s})

\* line 106: trianglesByMaterial.flat(), the assigned slots in ascending order
RECURSIVE flat(_, _)
flat(tbm, slots) ==
    IF slots = {} THEN <<>>
    ELSE LET s == SetMin(slots)
         IN  tbm[s] \o flat(tbm, slots \ {s})

\* lines 107-111: one addGroup(start, count, materialIndex) per assigned slot
RECURSIVE addGroups(_, _, _)
addGroups(tbm, slots, groupStartIndex) ==
    IF slots = {} THEN <<>>
    ELSE LET s == SetMin(slots)
         IN  << [start |-> groupStartIndex, count |-> Len(tbm[s]),
                 materialIndex |-> s] >>
             \o addGroups(tbm, slots \ {s}, groupStartIndex + Len(tbm[s]))

\* the test of line 115 turned into "some normal was supplied"
someNormals(g) == Len(g.normals) > 0

\* line 115: normals.length === vertices.length
allNormals(g) == Len(g.normals) = Len(g.vertices)

\* lines 106-122: the rest of the constructor after the generator has returned;
\* computeVertexNormals() belongs to three.js and is kept as the marker "computed"
finish(g) ==
    [g EXCEPT !.finished = TRUE,
              !.index = flat(g.trianglesByMaterial, DOMAIN g.trianglesByMaterial),
              !.groups = addGroups(g.trianglesByMaterial,
                                   DOMAIN g.trianglesByMaterial, 0),
              !.position = g.vertices,
              !.normal = IF allNormals(g)
                         THEN [source |-> "supplied", array |-> g.normals]
                         ELSE [source |-> "computed", array |-> <<>>],
              !.warnings = IF ~allNormals(g) /\ Len(g.normals) # 0
                           THEN @ + 1 ELSE @]

----------------------------------------------------------------------------
(* Soap: the generator handed to <surfaceGeometry> (soap.tsx lines 166-169) *)

\* line 167: vertices.map(v => addVertex(v)); r = [g, vMap] is the builder and
\* the indices returned so far, Len(r.vMap) the number of elements mapped.
\* The elements up to position n are visited first, then the next stretch
RECURSIVE mapAddVertexUpTo(_, _, _)
mapAddVertexUpTo(r, vs, n) ==
    IF Len(r.vMap) = n THEN r
    ELSE mapAddVertexUpTo([g |-> addVertex(r.g, vs[Len(r.vMap) + 1], NoNormal),
                           vMap |-> Append(r.vMap, addVertexReturn(r.g))], vs, n)

RECURSIVE mapAddVertex(_, _)
mapAddVertex(r, vs) ==
    IF Len(r.vMap) = Len(vs) THEN r
    ELSE mapAddVertex(
            mapAddVertexUpTo(r, vs, Min(Len(r.vMap) + 16, Len(vs))), vs)

\* line 168: triangles.forEach(([a, b, c]) => addTriangle(vMap[a], vMap[b], vMap[c]));
\* r = [g, n] is the builder and the number of triangles visited so far
RECURSIVE forEachAddTriangleUpTo(_, _, _, _)
forEachAddTriangleUpTo(r, vMap, ts, n) ==
    IF r.n = n THEN r
    ELSE LET t == ts[r.n + 1]
         IN  forEachAddTriangleUpTo(
                 [g |-> addTriangle(r.g, vMap[t[1] + 1], vMap[t[2] + 1],
                                    vMap[t[3] + 1], 0, FALSE),
                  n |-> r.n + 1], vMap, ts, n)

RECURSIVE forEachAddTriangle(_, _, _)
forEachAddTriangle(r, vMap, ts) ==
    IF r.n = Len(ts) THEN r
    ELSE forEachAddTriangle(
            forEachAddTriangleUpTo(r, vMap, ts, Min(r.n + 16, Len(ts))), vMap, ts)

soapGenerator(g, vs, ts) ==
    LET r == mapAddVertex([g |-> g, vMap |-> <<>>], vs)
    IN  forEachAddTriangle([g |-> r.g, n |-> 0], r.vMap, ts).g

----------------------------------------------------------------------------
(* Soap: the driver (lines 150-155) *)

\* the loop test with an off-by-one
moreRefinementsInclusive == i <= nRefinements

\* line 150: i < nRefinements
moreRefinements == i < nRefinements

\* the smoothing loop test with an off-by-one
moreSmoothingsInclusive == j <= nSmoothings

\* line 152: j < nSmoothings
moreSmoothings == j < nSmoothings

emptyMap == [x \in {} |-> 0]

\* lines 67-70, 88: the constructor before the generator runs
emptyGeometry ==
    [vertices |-> <<>>, normals |-> <<>>, trianglesByMaterial |-> emptyMap,
     finished |-> FALSE, index |-> <<>>, groups |-> <<>>,
     position |-> <<>>, normal |-> [source |-> "unset", array |-> <<>>],
     warnings |-> 0]

noCall ==
    [op |-> "none", afterFinish |-> FALSE, badIndex |-> FALSE,
     accepted |-> FALSE, signal |-> "none", ret |-> -1,
     args |-> <<>>, materialIndex |-> 0, invert |-> FALSE]

\* "let prevVertex: number | undefined", "let prev: number | undefined": no
\* vertex index is negative
undefined == -1

\* the largest distance of a vertex from the XY plane
maxHeight(vs) ==
    LET hs == {RAbs(vs[n][3]) : n \in 1 .. Len(vs)}
    IN  CHOOSE h \in hs : \A g \in hs : RSub(g, h)[1] <= 0

\* quadrangulate has not been called
idleQuad ==
    [pc |-> "idle", xs |-> 0, ys |-> 0, withOptions |-> FALSE, x |-> 0, j |-> 0,
     prevLineDefined |-> FALSE, prevLine |-> <<>>, prevVertex |-> undefined,
     line |-> <<>>, vertexCalls |-> <<>>, quadCalls |-> <<>>]

\* triangulate has not been called
idleTri ==
    [pc |-> "idle", n |-> 0, i |-> 0, j |-> 0, prevRowDefined |-> FALSE,
     prevRow |-> <<>>, currentRow |-> <<>>, prev |-> undefined,
     callbacks |-> <<>>, emitted |-> <<>>]

\* no Animation has been constructed
idleAnimation == [pc |-> "idle"]

\* the Newton slide is not mounted
idleNewton == [pc |-> "idle"]

\* the slide show is not mounted
idleShow == [pc |-> "idle"]

slidesIdle ==
    /\ anim = idleAnimation
    /\ newton = idleNewton
    /\ show = idleShow

SoapInit ==
    /\ vertices = bootstrapVertices
    /\ borderVertices = bootstrapBorder
    /\ triangles = bootstrapTriangles
    /\ pc = "loop"
    /\ i = 0
    /\ j = 0
    /\ edgeCenters = emptyMap
    /\ nTriangles = 0
    /\ refine_i = 0
    /\ centerCalls = {}
    /\ heights = <<>>
    /\ events = <<>>
    /\ passStart = [vertices |-> bootstrapVertices,
                    borderVertices |-> bootstrapBorder,
                    triangles |-> bootstrapTriangles]

Init ==
    /\ nRefinements \in 0 .. MaxRefinements
    /\ nSmoothings \in 0 .. MaxSmoothings
    /\ curve \in Curves
    /\ SoapInit
    /\ geometry = emptyGeometry
    /\ supplied = <<>>
    /\ lastCall = noCall
    /\ quad = idleQuad
    /\ tri = idleTri
    /\ slidesIdle

\* lines 113, 136: a refinement pass starts with an empty cache
RefineBegin ==
    /\ pc = "loop"
    /\ moreRefinements
    /\ edgeCenters' = emptyMap
    /\ centerCalls' = {}
    /\ nTriangles' = Len(triangles)
    /\ refine_i' = 0
    /\ pc' = "refine"
    /\ UNCHANGED <<nRefinements, nSmoothings, vertices, borderVertices,
                   triangles, i, j>>
    /\ UNCHANGED geomVars
    /\ UNCHANGED <<curve, heights, helperVars>>
    /\ passStart' = [vertices |-> vertices, borderVertices |-> borderVertices,
                     triangles |-> triangles]
    /\ UNCHANGED events

\* lines 137-147: one iteration of the loop over the triangles
RefineTriangle ==
    /\ pc = "refine"
    /\ refine_i < nTriangles
    /\ LET a == triangles[refine_i + 1][1]
           b == triangles[refine_i + 1][2]
           c == triangles[refine_i + 1][3]
           m0 == [vertices |-> vertices, borderVertices |-> borderVertices,
                  edgeCenters |-> edgeCenters, calls |-> centerCalls, v |-> 0]
           m1 == getEdgeCenter(m0, a, b)
           m2 == getEdgeCenter(m1, b, c)
           m3 == getEdgeCenter(m2, c, a)
       IN  /\ vertices' = m3.vertices
           /\ borderVertices' = m3.borderVertices
           /\ edgeCenters' = m3.edgeCenters
           /\ centerCalls' = m3.calls
           /\ triangles' = subdivideTriangle(triangles, refine_i, a, b, c,
                                             m1.v, m2.v, m3.v)
    /\ refine_i' = refine_i + 1
    /\ UNCHANGED <<nRefinements, nSmoothings, pc, i, j, nTriangles>>
    /\ UNCHANGED geomVars
    /\ UNCHANGED <<curve, heights, helperVars>>
    /\ UNCHANGED <<events, passStart>>

\* line 137 exit, line 152 entry
RefineEnd ==
    /\ pc = "refine"
    /\ refine_i >= nTriangles
    /\ pc' = "smooth"
    /\ j' = 0
    /\ UNCHANGED <<nRefinements, nSmoothings, vertices, borderVertices,
                   triangles, i, edgeCenters, nTriangles, refine_i, centerCalls>>
    /\ UNCHANGED geomVars
    /\ UNCHANGED <<curve, heights, helperVars>>
    /\ events' = Append(events, "refine")
    /\ UNCHANGED passStart

Smooth ==
    /\ pc = "smooth"
    /\ moreSmoothings
    /\ vertices' = smooth(vertices, borderVertices, triangles)
    /\ j' = j + 1
    /\ UNCHANGED <<nRefinements, nSmoothings, borderVertices, triangles, pc, i,
                   edgeCenters, nTriangles, refine_i, centerCalls>>
    /\ UNCHANGED geomVars
    /\ UNCHANGED <<curve, heights, helperVars>>
    /\ events' = Append(events, "smooth")
    /\ UNCHANGED passStart

\* line 152 exit, line 150 i++
SmoothEnd ==
    /\ pc = "smooth"
    /\ ~moreSmoothings
    /\ i' = i + 1
    /\ pc' = "loop"
    /\ heights' = Append(heights, maxHeight(vertices))
    /\ UNCHANGED <<nRefinements, nSmoothings, vertices, borderVertices,
                   triangles, j, edgeCenters, nTriangles, refine_i, centerCalls>>
    /\ UNCHANGED geomVars
    /\ UNCHANGED <<curve, helperVars>>
    /\ UNCHANGED <<events, passStart>>

\* line 150 exit: the relaxation is complete (lines 159-162 only log)
LoopEnd ==
    /\ pc = "loop"
    /\ ~moreRefinements
    /\ pc' = "done"
    /\ UNCHANGED <<nRefinements, nSmoothings, vertices, borderVertices,
                   triangles, i, j, edgeCenters, nTriangles, refine_i, centerCalls>>
    /\ UNCHANGED geomVars
    /\ UNCHANGED <<curve, heights, helperVars>>
    /\ UNCHANGED <<events, passStart>>

\* lines 165-169: a SurfaceGeometry is constructed from the soap generator
Emit ==
    /\ pc = "done"
    /\ pc' = "emitted"
    /\ geometry' = finish(soapGenerator(emptyGeometry, vertices, triangles))
    /\ UNCHANGED <<supplied, lastCall, curve, heights, helperVars>>
    /\ UNCHANGED <<events, passStart>>
    /\ UNCHANGED <<nRefinements, nSmoothings, vertices, borderVertices,
                   triangles, i, j, edgeCenters, nTriangles, refine_i, centerCalls>>

Next ==
    \/ RefineBegin
    \/ RefineTriangle
    \/ RefineEnd
    \/ Smooth
    \/ SmoothEnd
    \/ LoopEnd
    \/ Emit

Spec == Init /\ [][Next]_vars

\* the program position of the render function
control == <<pc, i, j, refine_i>>

\* what the statement at the program position does to the program position
\* (lines 137, 150-155, 165): Next seen through the control variables
Advance ==
    \/ /\ pc = "loop" /\ moreRefinements
       /\ pc' = "refine" /\ refine_i' = 0 /\ UNCHANGED <<i, j>>
    \/ /\ pc = "refine" /\ refine_i < nTriangles
       /\ refine_i' = refine_i + 1 /\ UNCHANGED <<pc, i, j>>
    \/ /\ pc = "refine" /\ refine_i >= nTriangles
       /\ pc' = "smooth" /\ j' = 0 /\ UNCHANGED <<i, refine_i>>
    \/ /\ pc = "smooth" /\ moreSmoothings
       /\ j' = j + 1 /\ UNCHANGED <<pc, i, refine_i>>
    \/ /\ pc = "smooth" /\ ~moreSmoothings
       /\ i' = i + 1 /\ pc' = "loop" /\ UNCHANGED <<j, refine_i>>
    \/ /\ pc = "loop" /\ ~moreRefinements
       /\ pc' = "done" /\ UNCHANGED <<i, j, refine_i>>
    \/ /\ pc = "done"
       /\ pc' = "emitted" /\ UNCHANGED <<i, j, refine_i>>

\* the render function is one synchronous piece of code: once called it runs
\* every statement up to the construction of the SurfaceGeometry
FairSpec == Spec /\ WF_control(Advance)

----------------------------------------------------------------------------
(* SurfaceGeometry driven by an arbitrary generator *)

MaxVertices == 3
MaxTriangles == 2

\* what a generator passes
Positions == {VZero}
Normals == {Vector3(Zero, Zero, RInt(1))}
Slots == {0, 2}
TriangleArgs == {<<a, a + 1, a + 2>> : a \in 0 .. MaxVertices - 2}
QuadrangleArgs == {<<a, a + 1, a + 2, a + 3>> : a \in 0 .. MaxVertices - 3}

RECURSIVE storedLength(_, _)
storedLength(tbm, slots) ==
    IF slots = {} THEN 0
    ELSE LET s == SetMin(slots)
         IN  Len(tbm[s]) + storedLength(tbm, slots \ {s})

storedTriangles == storedLength(geometry.trianglesByMaterial,
                                DOMAIN geometry.trianglesByMaterial) \div 3

BuilderInit ==
    /\ nRefinements = 0
    /\ nSmoothings = 0
    /\ curve = "wire"
    /\ SoapInit
    /\ geometry = emptyGeometry
    /\ supplied = <<>>
    /\ lastCall = noCall
    /\ quad = idleQuad
    /\ tri = idleTri
    /\ slidesIdle

\* the generator (or whoever kept the callback) calls addVertex
AddVertex ==
    /\ Len(geometry.vertices) < MaxVertices
    /\ \E v \in Positions, normal \in Normals \cup {NoNormal} :
        /\ geometry' = addVertex(geometry, v, normal)
        /\ supplied' = Append(supplied, normal)
        /\ lastCall' = [op |-> "addVertex",
                        afterFinish |-> geometry.finished,
                        badIndex |-> FALSE,
                        accepted |-> TRUE,
                        signal |-> IF addVertexWarns(geometry, normal)
                                   THEN "warn" ELSE "none",
                        ret |-> addVertexReturn(geometry),
                        args |-> <<>>, materialIndex |-> 0, invert |-> FALSE]
    /\ UNCHANGED soapVars
    /\ UNCHANGED helperVars

\* the generator calls addTriangle; lines 89-95 hold no check and no throw
AddTriangle ==
    /\ storedTriangles + 1 <= MaxTriangles
    /\ \E t \in TriangleArgs, materialIndex \in Slots, invert \in BOOLEAN :
        /\ geometry' = addTriangle(geometry, t[1], t[2], t[3], materialIndex, invert)
        /\ lastCall' = [op |-> "addTriangle",
                        afterFinish |-> geometry.finished,
                        badIndex |-> \E k \in 1 .. 3 : t[k] >= Len(geometry.vertices),
                        accepted |-> geometry'.trianglesByMaterial
                                        # geometry.trianglesByMaterial,
                        signal |-> "none",
                        ret |-> -1,
                        args |-> t, materialIndex |-> materialIndex,
                        invert |-> invert]
    /\ UNCHANGED supplied
    /\ UNCHANGED soapVars
    /\ UNCHANGED helperVars

\* the generator calls addQuadrangle; lines 97-101 hold no check and no throw
AddQuadrangle ==
    /\ storedTriangles + 2 <= MaxTriangles
    /\ \E q \in QuadrangleArgs, materialIndex \in Slots, invert \in BOOLEAN :
        /\ geometry' = addQuadrangle(geometry, q[1], q[2], q[3], q[4],
                                     materialIndex, invert)
        /\ lastCall' = [op |-> "addQuadrangle",
                        afterFinish |-> geometry.finished,
                        badIndex |-> \E k \in 1 .. 4 : q[k] >= Len(geometry.vertices),
                        accepted |-> geometry'.trianglesByMaterial
                                        # geometry.trianglesByMaterial,
                        signal |-> "none",
                        ret |-> -1,
                        args |-> q, materialIndex |-> materialIndex,
                        invert |-> invert]
    /\ UNCHANGED supplied
    /\ UNCHANGED soapVars
    /\ UNCHANGED helperVars

\* the generator returns and the constructor completes (lines 106-122)
Finish ==
    /\ ~geometry.finished
    /\ geometry' = finish(geometry)
    /\ lastCall' = noCall
    /\ UNCHANGED supplied
    /\ UNCHANGED soapVars
    /\ UNCHANGED helperVars

BuilderNext ==
    \/ AddVertex
    \/ AddTriangle
    \/ AddQuadrangle
    \/ Finish

BuilderSpec == BuilderInit /\ [][BuilderNext]_vars

----------------------------------------------------------------------------
(* Properties of the soap-film relaxation, checked under Spec *)

\* C1 (border pinning): in every state, after any number of refinement passes
\* and smoothing steps, every border vertex is positioned at borderVertex of
\* its recorded fraction, and no smoothing step changes the position of a
\* border vertex.
C1_BorderPinning ==
    /\ [](\A v \in DOMAIN borderVertices :
            vertices[v + 1] = borderVertex(borderVertices[v]))
    /\ [][(pc = "smooth" /\ j' = j + 1) =>
            \A v \in DOMAIN borderVertices : vertices'[v + 1] = vertices[v + 1]]_vars

\* two passes with two smoothing steps each are over; 24 border vertices exist
C1_Witness ==
    /\ pc = "done"
    /\ nRefinements = 2
    /\ j = 2
    /\ Cardinality(DOMAIN borderVertices) = 24

\* C2 (refinement growth): a completed pass leaves exactly 4 times the pre-pass
\* number of triangles, so after k passes from the fan there are 6 * 4^k
\* (96 for refinements = 2); within a pass each visited triangle adds three.
C2_RefinementGrowth ==
    /\ pc = "loop" => Len(triangles) = 6 * 4 ^ i
    /\ pc = "refine" => Len(triangles) = nTriangles + 3 * refine_i
    /\ pc = "smooth" => /\ Len(triangles) = 4 * nTriangles
                        /\ Len(triangles) = 6 * 4 ^ (i + 1)
    /\ pc \in {"done", "emitted"} => Len(triangles) = 6 * 4 ^ nRefinements
    /\ (pc \in {"done", "emitted"} /\ nRefinements = 2) => Len(triangles) = 96

C2_Witness ==
    /\ pc = "done"
    /\ nRefinements = 2
    /\ Len(triangles) = 96

\* C3: the bootstrap fan has 6 triangles and 7 vertices, and one refinement
\* pass applied to it yields exactly 24 triangles and exactly 19 vertices.
C3_FirstPassCounts ==
    /\ (pc = "loop" /\ i = 0) => Len(triangles) = 6 /\ Len(vertices) = 7
    /\ ((pc = "smooth" /\ i = 0) \/ (pc = "loop" /\ i = 1))
          => Len(triangles) = 24 /\ Len(vertices) = 19

C3_Witness ==
    /\ pc = "smooth"
    /\ i = 0
    /\ Len(vertices) = 19
    /\ Len(triangles) = 24

\* C4 (shared-edge midpoint uniqueness): within one refinement pass all
\* getEdgeCenter calls for the same unordered pair of endpoints return the same
\* vertex index, whatever the order of the endpoints, and at most one of them
\* creates a vertex.
C4_MidpointUnique ==
    \A c1 \in centerCalls : \A c2 \in centerCalls :
        {c1[1], c1[2]} = {c2[1], c2[2]} =>
            /\ c1[3] = c2[3]
            /\ (c1[4] /\ c2[4]) => c1 = c2

\* an edge was looked up from both sides, in opposite endpoint order
C4_Witness ==
    \E c1 \in centerCalls : \E c2 \in centerCalls :
        /\ c1[1] = c2[2]
        /\ c1[2] = c2[1]
        /\ c1[1] # c1[2]
        /\ c1[4]
        /\ ~c2[4]
        /\ c1[3] = c2[3]

\* C5: with zero refinements the finished relaxation is exactly the bootstrap
\* fan, for every number of smoothing steps: border vertices 0 .. 5 at the
\* fractions 0, 1/6, ..., 5/6, vertex 6 at their centroid, and the six
\* triangles (6, k, (k + 1) mod 6).
C5_ZeroRefinementsIsFan ==
    (nRefinements = 0 /\ pc \in {"done", "emitted"}) =>
        /\ Len(vertices) = 7
        /\ DOMAIN borderVertices = 0 .. 5
        /\ \A k \in 0 .. 5 :
              /\ borderVertices[k] = Norm(k, 6)
              /\ vertices[k + 1] = borderVertex(Norm(k, 6))
        /\ vertices[7] =
              divideScalar(
                  VAdd(VAdd(VAdd(VAdd(VAdd(vertices[1], vertices[2]), vertices[3]),
                                 vertices[4]), vertices[5]), vertices[6]), 6)
        /\ Len(triangles) = 6
        /\ \A k \in 0 .. 5 : triangles[k + 1] = <<6, k, (k + 1) % 6>>

C5_Witness ==
    /\ nRefinements = 0
    /\ nSmoothings > 0
    /\ pc = "done"
    /\ Len(triangles) = 6

----------------------------------------------------------------------------
(* Properties of the mesh builder, checked under BuilderSpec *)

\* C6 (index validity): every index of a finished mesh is below its vertex
\* count, whatever calls the generator made.
C6_IndexValidity ==
    geometry.finished =>
        \A n \in 1 .. Len(geometry.index) :
            geometry.index[n] < Len(geometry.position)

C8_SingleUse ==
    lastCall.afterFinish => lastCall.signal = "error"

\* C9: every addVertex call that supplies a normal although an earlier call of
\* the build supplied none, or supplies none although an earlier call supplied
\* one, is flagged with a warning; the call still appends the vertex and
\* returns its index.
C9_InconsistentNormalFlagged ==
    lastCall.op = "addVertex" =>
        LET n == Len(supplied)
            inconsistent ==
                IF supplied[n] # NoNormal
                THEN \E k \in 1 .. n - 1 : supplied[k] = NoNormal
                ELSE \E k \in 1 .. n - 1 : supplied[k] # NoNormal
        IN  /\ inconsistent => lastCall.signal = "warn"
            /\ lastCall.ret = n - 1
            /\ Len(geometry.vertices) = n

\* C10: the finished mesh carries the supplied normals if and only if every
\* addVertex call of the build supplied one; otherwise (none, or only some)
\* the normals are computed from the triangles.
C10_SuppliedNormalsIffAll ==
    geometry.finished =>
        LET n == Len(geometry.position)
            all == \A k \in 1 .. n : supplied[k] # NoNormal
        IN  /\ (geometry.normal.source = "supplied") <=> all
            /\ all => geometry.normal.array = SubSeq(supplied, 1, n)
            /\ ~all => geometry.normal.source = "computed"

\* a finished mesh of two vertices that both came with a normal
C10_Witness ==
    /\ geometry.finished
    /\ Len(geometry.position) = 2
    /\ \A k \in 1 .. 2 : supplied[k] # NoNormal
    /\ geometry.normal.source = "supplied"

----------------------------------------------------------------------------
(* Claims about the builder's triangles, quadrangles and groups *)

\* the indices one triangle contributes to its slot
stored(a, b, c, invert) == IF invert THEN <<c, b, a>> ELSE <<a, b, c>>

\* what the slot held before the call
slotBefore(slot) ==
    IF slot \in DOMAIN geometry.trianglesByMaterial
    THEN geometry.trianglesByMaterial[slot] ELSE <<>>

\* every other slot is left as it was and the called slot exists afterwards
onlySlotTouched(slot) ==
    /\ DOMAIN geometry'.trianglesByMaterial
          = DOMAIN geometry.trianglesByMaterial \cup {slot}
    /\ \A s \in DOMAIN geometry.trianglesByMaterial \ {slot} :
          geometry'.trianglesByMaterial[s] = geometry.trianglesByMaterial[s]

\* C11: winding/invert law: addTriangle(a, b, c, slot, invert) appends (a, b, c)
\* to the slot when invert is false and its exact reverse (c, b, a) when invert
\* is true, in the slot that was named and in no other
C11_WindingInvertLaw ==
    [][(lastCall'.op = "addTriangle" /\ geometry' # geometry) =>
        LET t == lastCall'.args
            slot == lastCall'.materialIndex
        IN  /\ onlySlotTouched(slot)
            /\ geometry'.trianglesByMaterial[slot]
                 = slotBefore(slot) \o (IF lastCall'.invert
                                        THEN <<t[3], t[2], t[1]>> ELSE t)]_vars

C11_Witness ==
    /\ lastCall.op = "addTriangle"
    /\ lastCall.invert
    /\ lastCall.materialIndex = 2
    /\ lastCall.args = <<1, 2, 3>>
    /\ geometry.trianglesByMaterial[2] = <<3, 2, 1>>

\* C12: quad decomposition: addQuadrangle(a, b, c, d) appends exactly two
\* triangles to the chosen slot, (a, b, c) then (a, c, d), each reversed when
\* invert is set; they share the diagonal a-c and cover {a, b, c, d}
C12_QuadDecomposition ==
    [][(lastCall'.op = "addQuadrangle" /\ geometry' # geometry) =>
        LET q == lastCall'.args
            slot == lastCall'.materialIndex
            first == stored(q[1], q[2], q[3], lastCall'.invert)
            second == stored(q[1], q[3], q[4], lastCall'.invert)
            new == geometry'.trianglesByMaterial[slot]
            n == Len(slotBefore(slot))
        IN  /\ onlySlotTouched(slot)
            /\ new = slotBefore(slot) \o first \o second
            /\ Len(new) = n + 6
            /\ {q[1], q[3]} \subseteq {new[n + k] : k \in 1 .. 3}
                                        \cap {new[n + k] : k \in 4 .. 6}
            /\ {new[n + k] : k \in 1 .. 6} = {q[k] : k \in 1 .. 4}]_vars

C12_Witness ==
    /\ lastCall.op = "addQuadrangle"
    /\ lastCall.invert
    /\ lastCall.args = <<0, 1, 2, 3>>
    /\ geometry.trianglesByMaterial[lastCall.materialIndex]
         = <<2, 1, 0, 3, 2, 0>>

\* the generator has returned, the constructor has completed and nobody has
\* called the builder since
justFinished == geometry.finished /\ lastCall = noCall

\* C13: the finished index array is the concatenation, in ascending slot order,
\* of each used slot's triangles in insertion order; the groups tile it: the
\* first starts at 0, each starts where the previous one ends, their lengths sum
\* to the length of the index array, also when lower slots were never used
C13_GroupsTileIndex ==
    justFinished =>
        LET tbm == geometry.trianglesByMaterial
            gs == geometry.groups
            idx == geometry.index
            n == Len(gs)
        IN  /\ {gs[k].materialIndex : k \in 1 .. n} = DOMAIN tbm
            /\ \A k \in 1 .. n - 1 : gs[k].materialIndex < gs[k + 1].materialIndex
            /\ n > 0 => gs[1].start = 0
            /\ \A k \in 1 .. n - 1 : gs[k + 1].start = gs[k].start + gs[k].count
            /\ Len(idx) = IF n = 0 THEN 0 ELSE gs[n].start + gs[n].count
            /\ \A k \in 1 .. n :
                  SubSeq(idx, gs[k].start + 1, gs[k].start + gs[k].count)
                      = tbm[gs[k].materialIndex]

C13_Witness ==
    /\ justFinished
    /\ pc = "loop"
    /\ DOMAIN geometry.trianglesByMaterial = {0, 2}
    /\ Len(geometry.groups) = 2
    /\ geometry.groups[2].start = 3
    /\ geometry.groups[2].materialIndex = 2

----------------------------------------------------------------------------
(* quadrangulate (Polynomial.tsx lines 146-163) run against the builder *)

MaxGrid == 3

\* the caller's toVertexPos: here the grid point itself
toVertexPos(x, y) == Vector3(RInt(x), RInt(y), Zero)

\* a JavaScript array read: undefined outside the array
at(array, k) == IF k \in 0 .. Len(array) - 1 THEN array[k + 1] ELSE undefined

\* the guard of line 157 reduced to its first half
cellCompleteRowOnly(q) == q.prevLineDefined

\* line 157: prevLine !== undefined && prevVertex !== undefined
cellComplete(q) == q.prevLineDefined /\ q.prevVertex # undefined

\* line 158: the arguments of addQuadrangle
cellCorners(q, vertex) ==
    <<q.prevVertex, vertex, at(q.prevLine, q.j), at(q.prevLine, q.j - 1)>>

\* quadrangulate(xs, ys, toVertexPos) is handed a builder that is fresh or
\* already holds a vertex of another generator (combineSurfaceGenerators)
QuadInit ==
    /\ nRefinements = 0
    /\ nSmoothings = 0
    /\ curve = "wire"
    /\ SoapInit
    /\ geometry \in {emptyGeometry, addVertex(emptyGeometry, VZero, NoNormal)}
    /\ supplied = <<>>
    /\ lastCall = noCall
    /\ tri = idleTri
    /\ slidesIdle
    /\ \E m \in 0 .. MaxGrid, n \in 0 .. MaxGrid, o \in BOOLEAN :
          quad = [idleQuad EXCEPT !.pc = "forEach", !.xs = m, !.ys = n,
                                  !.withOptions = o]

\* lines 152-153: the forEach callback starts on the next x
QuadRow ==
    /\ quad.pc = "forEach"
    /\ quad.x < quad.xs
    /\ quad' = [quad EXCEPT !.pc = "map", !.prevVertex = undefined,
                            !.j = 0, !.line = <<>>]
    /\ UNCHANGED <<soapVars, geomVars, tri, slideVars>>

\* lines 154-160: the map callback for one y
QuadPoint ==
    /\ quad.pc = "map"
    /\ quad.j < quad.ys
    /\ \E normal \in IF quad.withOptions THEN Normals ELSE {NoNormal} :
        LET pos == toVertexPos(quad.x, quad.j)
            vertex == addVertexReturn(geometry)
            g == addVertex(geometry, pos, normal)
            c == cellCorners(quad, vertex)
        IN  /\ geometry' = IF cellComplete(quad)
                           THEN addQuadrangle(g, c[1], c[2], c[3], c[4], 0, FALSE)
                           ELSE g
            /\ quad' = [quad EXCEPT
                  !.j = @ + 1,
                  !.prevVertex = vertex,
                  !.line = Append(@, vertex),
                  !.vertexCalls = Append(@, <<quad.x, quad.j, vertex>>),
                  !.quadCalls =
                      IF cellComplete(quad)
                      THEN Append(@, [args |-> c, cell |-> <<quad.x, quad.j>>,
                                      returned |->
                                        {quad.vertexCalls[k][3] :
                                           k \in 1 .. Len(quad.vertexCalls)}
                                        \cup {vertex}])
                      ELSE @]
    /\ UNCHANGED <<soapVars, supplied, lastCall, tri, slideVars>>

\* line 154: prevLine = ys.map(...) once the map has visited every y
QuadRowEnd ==
    /\ quad.pc = "map"
    /\ quad.j = quad.ys
    /\ quad' = [quad EXCEPT !.pc = "forEach", !.prevLineDefined = TRUE,
                            !.prevLine = quad.line, !.x = @ + 1]
    /\ UNCHANGED <<soapVars, geomVars, tri, slideVars>>

\* lines 162-163: forEach has visited every x and the generator returns
QuadReturn ==
    /\ quad.pc = "forEach"
    /\ quad.x = quad.xs
    /\ quad' = [quad EXCEPT !.pc = "done"]
    /\ UNCHANGED <<soapVars, geomVars, tri, slideVars>>

QuadNext ==
    \/ QuadRow
    \/ QuadPoint
    \/ QuadRowEnd
    \/ QuadReturn

QuadSpec == QuadInit /\ [][QuadNext]_vars

\* the index addVertex returned for grid point (x, y)
returnedAt(x, y) == quad.vertexCalls[x * quad.ys + y + 1][3]

\* addVertex was called exactly once per grid point, in row-major order
rowMajorVertices ==
    /\ Len(quad.vertexCalls) = quad.xs * quad.ys
    /\ \A k \in 1 .. Len(quad.vertexCalls) :
          /\ quad.vertexCalls[k][1] = (k - 1) \div quad.ys
          /\ quad.vertexCalls[k][2] = (k - 1) % quad.ys

\* one quadrangle per 2 x 2 cell of the current and the previous row, on the four
\* indices of that cell, each returned before the quadrangle was emitted
oneQuadranglePerCell ==
    /\ {quad.quadCalls[k].cell : k \in 1 .. Len(quad.quadCalls)}
          = (1 .. quad.xs - 1) \X (1 .. quad.ys - 1)
    /\ \A k, l \in 1 .. Len(quad.quadCalls) :
          quad.quadCalls[k].cell = quad.quadCalls[l].cell => k = l
    /\ \A k \in 1 .. Len(quad.quadCalls) :
          LET x == quad.quadCalls[k].cell[1]
              y == quad.quadCalls[k].cell[2]
              q == quad.quadCalls[k].args
          IN  /\ q = <<returnedAt(x, y - 1), returnedAt(x, y),
                       returnedAt(x - 1, y), returnedAt(x - 1, y - 1)>>
              /\ {q[c] : c \in 1 .. 4} \subseteq quad.quadCalls[k].returned

\* C14 as stated: for sequences of lengths m and n, addVertex exactly once per
\* grid point in row-major order and exactly (m-1)*(n-1) quadrangles, one per
\* 2 x 2 cell, on that cell's four already returned indices
C14_Original ==
    quad.pc = "done" =>
        /\ rowMajorVertices
        /\ Len(quad.quadCalls) = (quad.xs - 1) * (quad.ys - 1)
        /\ oneQuadranglePerCell

\* C14: quadrangulate calls addVertex exactly once per grid point in row-major
\* order and emits one quadrangle per 2 x 2 cell of the current and the previous
\* row, on that cell's four already returned indices: (m-1)*(n-1) quadrangles
\* when both sequences are non-empty and none when either is empty
C14_Quadrangulate ==
    quad.pc = "done" =>
        /\ rowMajorVertices
        /\ Len(quad.quadCalls) = IF quad.xs >= 1 /\ quad.ys >= 1
                                 THEN (quad.xs - 1) * (quad.ys - 1) ELSE 0
        /\ oneQuadranglePerCell

C14_Witness ==
    /\ quad.pc = "done"
    /\ quad.xs = 3
    /\ quad.ys = 3
    /\ Len(quad.quadCalls) = 4
    /\ Len(geometry.vertices) = 10
    /\ quad.quadCalls[4].args = <<8, 9, 6, 5>>

----------------------------------------------------------------------------
(* triangulate (Polynomial.tsx lines 177-203) run against the builder *)

MaxDivisions == 3

\* the row length taken from n alone
n_iWholeRow(n, row) == n

\* line 187: const n_i = n-i
n_i(n, row) == n - row

\* line 194: if (prev), false for undefined and for the number 0
truthy(value) == value # undefined /\ value # 0

\* triangulate(n, {addVertexFromIndices, emitTriangle}) is called by a generator
\* on a fresh builder
TriInit ==
    /\ nRefinements = 0
    /\ nSmoothings = 0
    /\ curve = "wire"
    /\ SoapInit
    /\ geometry = emptyGeometry
    /\ supplied = <<>>
    /\ lastCall = noCall
    /\ quad = idleQuad
    /\ slidesIdle
    /\ \E n \in 0 .. MaxDivisions : tri = [idleTri EXCEPT !.pc = "for_i", !.n = n]

\* lines 185-188: the outer loop enters its body
TriRow ==
    /\ tri.pc = "for_i"
    /\ tri.i <= tri.n
    /\ tri' = [tri EXCEPT !.pc = "for_j", !.currentRow = <<>>,
                          !.prev = undefined, !.j = 0]
    /\ UNCHANGED <<soapVars, geomVars, quad, slideVars>>

\* the caller's addVertexFromIndices: a new vertex of the builder, as the slides
\* do, or index 0 again once the builder holds a vertex (a shared vertex)
callbackReturns(g) == {addVertexReturn(g)} \cup {0}

\* lines 189-200: one pass of the inner loop
TriPoint ==
    /\ tri.pc = "for_j"
    /\ tri.j <= n_i(tri.n, tri.i)
    /\ \E v \in callbackReturns(geometry) :
        LET k == n_i(tri.n, tri.i) - tri.j
            g0 == IF v = addVertexReturn(geometry)
                  THEN addVertex(geometry, VZero, NoNormal) ELSE geometry
            first == <<v, at(tri.prevRow, tri.j), tri.prev>>
            second == <<v, at(tri.prevRow, tri.j + 1), at(tri.prevRow, tri.j)>>
            returned == {tri.callbacks[c][4] : c \in 1 .. Len(tri.callbacks)}
                            \cup {v}
            emits == IF ~tri.prevRowDefined THEN <<>>
                     ELSE IF truthy(tri.prev) THEN <<first, second>>
                     ELSE <<second>>
            g1 == IF Len(emits) = 2
                  THEN addTriangle(g0, first[1], first[2], first[3], 0, FALSE)
                  ELSE g0
            g2 == IF Len(emits) >= 1
                  THEN addTriangle(g1, second[1], second[2], second[3], 0, FALSE)
                  ELSE g1
        IN  /\ geometry' = g2
            /\ tri' = [tri EXCEPT
                  !.j = @ + 1,
                  !.prev = v,
                  !.currentRow = Append(@, v),
                  !.callbacks = Append(@, <<tri.i, tri.j, k, v>>),
                  !.emitted = @ \o [e \in 1 .. Len(emits) |->
                                       [args |-> emits[e], returned |-> returned]]]
    /\ UNCHANGED <<soapVars, supplied, lastCall, quad, slideVars>>

\* line 201: prevRow = currentRow after the inner loop
TriRowEnd ==
    /\ tri.pc = "for_j"
    /\ tri.j > n_i(tri.n, tri.i)
    /\ tri' = [tri EXCEPT !.pc = "for_i", !.prevRowDefined = TRUE,
                          !.prevRow = tri.currentRow, !.i = @ + 1]
    /\ UNCHANGED <<soapVars, geomVars, quad, slideVars>>

\* lines 185, 203: the outer loop ends and triangulate returns
TriReturn ==
    /\ tri.pc = "for_i"
    /\ tri.i > tri.n
    /\ tri' = [tri EXCEPT !.pc = "done"]
    /\ UNCHANGED <<soapVars, geomVars, quad, slideVars>>

TriNext ==
    \/ TriRow
    \/ TriPoint
    \/ TriRowEnd
    \/ TriReturn

TriSpec == TriInit /\ [][TriNext]_vars

\* C15: for every n >= 0 and every vertex callback, whatever indices it returns
\* (index 0 included), triangulate emits exactly n^2 triangles
C15_TriangleCount ==
    tri.pc = "done" => Len(tri.emitted) = tri.n * tri.n

\* the lattice points of the subdivided triangle
latticePoints(n) ==
    {p \in (0 .. n) \X (0 .. n) \X (0 .. n) : p[1] + p[2] + p[3] = n}

\* C16: the vertex callback is invoked exactly once per lattice point, always
\* with non-negative (i, j, k) whose sum is n; every emitted triangle uses only
\* indices returned by earlier invocations; n = 0 emits no triangle and makes
\* no invalid callback
C16_Callbacks ==
    LET calls == tri.callbacks
        point(c) == <<calls[c][1], calls[c][2], calls[c][3]>>
    IN  /\ \A c \in 1 .. Len(calls) : point(c) \in latticePoints(tri.n)
        /\ \A c, d \in 1 .. Len(calls) : point(c) = point(d) => c = d
        /\ tri.pc = "done" =>
              {point(c) : c \in 1 .. Len(calls)} = latticePoints(tri.n)
        /\ \A e \in 1 .. Len(tri.emitted) :
              {tri.emitted[e].args[c] : c \in 1 .. 3}
                  \subseteq tri.emitted[e].returned
        /\ (tri.pc = "done" /\ tri.n = 0) =>
              /\ Len(tri.emitted) = 0
              /\ calls = << <<0, 0, 0, calls[1][4]>> >>

C16_Witness ==
    /\ tri.pc = "done"
    /\ tri.n = 3
    /\ Len(tri.callbacks) = 10
    /\ Len(tri.emitted) = 8
    /\ \E c \in 5 .. 10 : tri.callbacks[c][4] = 0

----------------------------------------------------------------------------
(* Claims about the relaxation of a planar boundary, checked under Spec *)

\* the run the scenario names: the unit circle, two passes, one smoothing step
\* each. Its first pass is the whole run with refinements = 1, the loop being
\* deterministic, so heights[1] is the maximum of that result
circleScenarioDone ==
    /\ curve = "circle"
    /\ nRefinements = 2
    /\ nSmoothings = 1
    /\ pc = "done"

\* C17 as stated: with the unit circle as boundary and smoothingSteps = 1, the
\* result for refinements = 2 has a maximum vertex distance from the XY plane
\* strictly less than the result for refinements = 1
C17_Original ==
    circleScenarioDone => RSub(heights[2], heights[1])[1] < 0

\* C17: with the unit circle in the XY plane as boundary every vertex stays in
\* the plane, so for smoothingSteps = 1 the maximum vertex distance from the XY
\* plane is zero for refinements = 2 as for refinements = 1: equal, not less
C17_PlanarStaysPlanar ==
    curve = "circle" =>
        /\ \A n \in 1 .. Len(vertices) : vertices[n][3] = Zero
        /\ \A p \in 1 .. Len(heights) : heights[p] = Zero
        /\ circleScenarioDone => heights[2] = heights[1]

C17_Witness ==
    /\ circleScenarioDone
    /\ Len(vertices) = 61
    /\ Len(triangles) = 96
    /\ heights = <<Zero, Zero>>

----------------------------------------------------------------------------
(* Claims about smoothing and border midpoints, checked under Spec *)

\* a step of the smoothing loop (lines 152-154)
smoothingStep == pc = "smooth" /\ j' = j + 1

corners(t) == {t[1], t[2], t[3]}

\* the vertices joined to v by a triangle edge
neighbours(v, ts) ==
    UNION {corners(ts[n]) : n \in {m \in 1 .. Len(ts) : v \in corners(ts[m])}}
        \ {v}

\* the sum of the positions vs holds for the vertices in S
RECURSIVE positionSum(_, _)
positionSum(S, vs) ==
    IF S = {} THEN Vector3(Zero, Zero, Zero)
    ELSE LET u == CHOOSE w \in S : TRUE
         IN  VAdd(positionSum(S \ {u}, vs), vs[u + 1])

\* C18: one smoothing step moves every non-border vertex to the unweighted
\* average of the positions of all vertices joined to it by a triangle edge,
\* each neighbour counted exactly once, on every mesh the loop reaches
C18_NeighbourAverage ==
    [][smoothingStep =>
        \A v \in 0 .. Len(vertices) - 1 :
            v \notin DOMAIN borderVertices =>
                LET N == neighbours(v, triangles)
                IN  /\ N # {}
                    /\ vertices'[v + 1]
                         = divideScalar(positionSum(N, vertices), Cardinality(N))]_vars

C18_Witness ==
    /\ pc = "smooth"
    /\ i = 1
    /\ j = 2
    /\ curve = "wire"
    /\ Len(vertices) = 61
    /\ \E v \in 0 .. Len(vertices) - 1 :
          /\ v \notin DOMAIN borderVertices
          /\ Cardinality(neighbours(v, triangles)) = 6
          /\ vertices[v + 1][2] # Zero

\* the corner that follows v in triangle t (b for a, c for b, a for c)
following(v, t) == IF t[1] = v THEN t[2] ELSE IF t[2] = v THEN t[3] ELSE t[1]

\* the triangles that hold v
incident(v, ts) == {n \in 1 .. Len(ts) : v \in corners(ts[n])}

\* C19: a smoothing step computes every new position from the positions all
\* vertices had before the step: each non-border vertex gets one sixth of the
\* sum, over its triangles in any order, of the old position of the corner that
\* follows it, whether or not that corner has a lower index and is itself moved
C19_FromOldPositions ==
    [][smoothingStep =>
        \A v \in 0 .. Len(vertices) - 1 :
            vertices'[v + 1] =
                IF v \in DOMAIN borderVertices THEN vertices[v + 1]
                ELSE divideScalar(
                        positionSum({following(v, triangles[n]) :
                                        n \in incident(v, triangles)}, vertices),
                        6)]_vars

\* a moved vertex with a neighbour of lower index that was moved in the same step
C19_Witness ==
    /\ pc = "smooth"
    /\ i = 0
    /\ j = 2
    /\ curve = "wire"
    /\ \E v \in 0 .. Len(vertices) - 1 :
          /\ v \notin DOMAIN borderVertices
          /\ \E u \in neighbours(v, triangles) :
                u < v /\ u \notin DOMAIN borderVertices

\* the distance of two parameters around the closed curve
arc(f, g) ==
    LET d == RAbs(RSub(f, g))
    IN  IF RSub(d, <<1, 2>>)[1] > 0 THEN RSub(<<1, 1>>, d) ELSE d

\* the getEdgeCenter calls of this pass that created the midpoint of an edge
\* between two border vertices
borderMidpoints ==
    {c \in centerCalls : /\ c[4]
                         /\ c[1] \in DOMAIN borderVertices
                         /\ c[2] \in DOMAIN borderVertices}

\* C20: the midpoint of an edge between border vertices with parameters fa and
\* fb is a border vertex whose parameter is the average of fa and fb, moved by
\* half a turn modulo 1 when |fb - fa| > 0.5; it lies in [0, 1), half way along
\* the minor arc between fa and fb, and its position is boundary(parameter),
\* not the middle of the chord
C20_BorderMidpoint ==
    \A c \in borderMidpoints :
        LET fa == borderVertices[c[1]]
            fb == borderVertices[c[2]]
            average == RDivInt(RAdd(fa, fb), 2)
            wide == RSub(RAbs(RSub(fb, fa)), <<1, 2>>)[1] > 0
        IN  /\ c[3] \in DOMAIN borderVertices
            /\ LET f == borderVertices[c[3]]
               IN  /\ f = IF wide THEN RMod1(RAdd(average, <<1, 2>>)) ELSE average
                   /\ f[1] >= 0
                   /\ f[1] < f[2]
                   /\ arc(fa, f) = RDivInt(arc(fa, fb), 2)
                   /\ arc(f, fb) = RDivInt(arc(fa, fb), 2)
                   /\ vertices[c[3] + 1] = borderVertex(f)
                   /\ vertices[c[3] + 1]
                        # halve(VAdd(vertices[c[1] + 1], vertices[c[2] + 1]))

\* the edge from parameter 5/6 to parameter 0 got its midpoint at 11/12
C20_Witness ==
    \E c \in borderMidpoints :
        /\ {borderVertices[c[1]], borderVertices[c[2]]} = {<<5, 6>>, <<0, 1>>}
        /\ borderVertices[c[3]] = <<11, 12>>

----------------------------------------------------------------------------
(* Claims about the loop and the refinement pass, checked under FairSpec/Spec *)

\* R passes, each one refinement followed by S smoothing steps
expectedEvents(R, S) ==
    [p \in 1 .. R * (S + 1) |->
        IF (p - 1) % (S + 1) = 0 THEN "refine" ELSE "smooth"]

\* C21: for refinement count R and smoothing count S the relaxation performs
\* exactly R refinement passes, each immediately followed by exactly S smoothing
\* steps, no smoothing step before the first refinement, and then terminates: a
\* started relaxation always completes
C21_LoopStructure ==
    /\ [](LET expected == expectedEvents(nRefinements, nSmoothings)
          IN  /\ Len(events) <= Len(expected)
              /\ events = SubSeq(expected, 1, Len(events))
              /\ pc \in {"done", "emitted"} => events = expected)
    /\ <>(pc = "done")

C21_Witness ==
    /\ pc = "done"
    /\ nRefinements = 2
    /\ nSmoothings = 2
    /\ events = <<"refine", "smooth", "smooth", "refine", "smooth", "smooth">>

\* a refinement pass is under way or has just ended: no smoothing step has
\* touched the mesh since the pass began
inPass == pc = "refine" \/ (pc = "smooth" /\ j = 0)

\* C22: a refinement pass only appends vertices: every vertex that existed
\* before the pass keeps its index, its position, its border or interior status
\* and its border parameter, and every new vertex gets an index at or above the
\* pre-pass vertex count
C22_RefineFrame ==
    inPass =>
        LET before == Len(passStart.vertices)
        IN  /\ Len(vertices) >= before
            /\ SubSeq(vertices, 1, before) = passStart.vertices
            /\ \A v \in 0 .. before - 1 :
                  /\ v \in DOMAIN borderVertices
                        <=> v \in DOMAIN passStart.borderVertices
                  /\ v \in DOMAIN borderVertices
                        => borderVertices[v] = passStart.borderVertices[v]
            /\ DOMAIN passStart.borderVertices \subseteq DOMAIN borderVertices
            /\ \A c \in centerCalls : c[4] => c[3] \in before .. Len(vertices) - 1
            /\ Cardinality({c[3] : c \in {d \in centerCalls : d[4]}})
                 = Len(vertices) - before

C22_Witness ==
    /\ pc = "smooth"
    /\ j = 0
    /\ i = 1
    /\ Len(passStart.vertices) = 19
    /\ Len(vertices) = 61
    /\ Cardinality(DOMAIN passStart.borderVertices) = 12
    /\ Cardinality(DOMAIN borderVertices) = 24

\* the vertex getEdgeCenter returned for the edge between a and b in this pass
centerOf(a, b) ==
    (CHOOSE c \in centerCalls : {c[1], c[2]} = {a, b})[3]

\* v is the midpoint vertex of the edge a-b: on the curve half way between two
\* border parameters, else half way between the two positions
isMidpoint(v, a, b) ==
    IF a \in DOMAIN passStart.borderVertices /\ b \in DOMAIN passStart.borderVertices
    THEN /\ v \in DOMAIN borderVertices
         /\ vertices[v + 1] = borderVertex(borderVertices[v])
    ELSE /\ v \notin DOMAIN borderVertices
         /\ RMulInt(2, vertices[v + 1][1])
               = RAdd(vertices[a + 1][1], vertices[b + 1][1])
         /\ RMulInt(2, vertices[v + 1][2])
               = RAdd(vertices[a + 1][2], vertices[b + 1][2])
         /\ RMulInt(2, vertices[v + 1][3])
               = RAdd(vertices[a + 1][3], vertices[b + 1][3])

\* C23 (during a pass: the triangle subdivided last; at its end: all of them):
\* a refinement pass replaces each pre-pass triangle (a, b, c) at slot i by
\* the center triangle (ab, bc, ca) written in place at slot i and appends the
\* corner triangles (a, ab, ca), (b, bc, ab), (c, ca, bc), where ab, bc, ca are the
\* midpoint vertices of its edges; only the triangles present at the start of
\* the pass are subdivided, the appended ones are left alone in the same pass
C23_Subdivision ==
    inPass =>
        LET old == passStart.triangles
            visited == IF pc = "refine" THEN refine_i ELSE Len(old)
        IN  /\ visited <= Len(old)
            /\ nTriangles = Len(old)
            /\ Len(triangles) = Len(old) + 3 * visited
            /\ \A k \in visited + 1 .. Len(old) : triangles[k] = old[k]
            /\ \A k \in (IF pc = "refine" THEN {visited} \ {0} ELSE 1 .. visited) :
                  LET a == old[k][1]
                      b == old[k][2]
                      c == old[k][3]
                      ab == centerOf(a, b)
                      bc == centerOf(b, c)
                      ca == centerOf(c, a)
                      base == Len(old) + 3 * (k - 1)
                  IN  /\ isMidpoint(ab, a, b)
                      /\ isMidpoint(bc, b, c)
                      /\ isMidpoint(ca, c, a)
                      /\ triangles[k] = <<ab, bc, ca>>
                      /\ triangles[base + 1] = <<a, ab, ca>>
                      /\ triangles[base + 2] = <<b, bc, ab>>
                      /\ triangles[base + 3] = <<c, ca, bc>>

C23_Witness ==
    /\ pc = "smooth"
    /\ j = 0
    /\ i = 1
    /\ Len(passStart.triangles) = 24
    /\ Len(triangles) = 96
    /\ triangles[1] = <<centerOf(passStart.triangles[1][1], passStart.triangles[1][2]),
                        centerOf(passStart.triangles[1][2], passStart.triangles[1][3]),
                        centerOf(passStart.triangles[1][3], passStart.triangles[1][1])>>

----------------------------------------------------------------------------
(* Claims about the shape of the refined mesh *)

\* the mesh is the bootstrap fan (nothing has run yet) or the result of a
\* refinement pass that has just ended; smoothing moves vertices only
betweenPasses == (pc = "loop" /\ i = 0) \/ (pc = "smooth" /\ j = 0)

\* the number of refinement passes completed so far
passes == Cardinality({n \in 1 .. Len(events) : events[n] = "refine"})

\* C24: after the bootstrap and after any number of refinement passes every
\* vertex that is not a border vertex is a corner of exactly six triangles
C24_ValenceSix ==
    betweenPasses =>
        \A v \in 0 .. Len(vertices) - 1 :
            v \notin DOMAIN borderVertices =>
                Cardinality(incident(v, triangles)) = 6

\* two passes done: 61 vertices, 37 of them inside, among them midpoints of
\* edges created by the first pass
C24_Witness ==
    /\ betweenPasses
    /\ passes = 2
    /\ Len(vertices) = 61
    /\ Cardinality(DOMAIN borderVertices) = 24
    /\ \E v \in 0 .. Len(vertices) - 1 :
          /\ v >= Len(passStart.vertices)
          /\ v \notin DOMAIN borderVertices
          /\ Cardinality(incident(v, triangles)) = 6

\* the directed edges of a triangle, in its winding order
directedEdges(t) == {<<t[1], t[2]>>, <<t[2], t[3]>>, <<t[3], t[1]>>}

\* the triangles of ts that traverse the edge from u to v in that direction
traversing(u, v, ts) == {n \in 1 .. Len(ts) : <<u, v>> \in directedEdges(ts[n])}

\* the triangles of ts that have the edge between u and v, in either direction
sharing(u, v, ts) == traversing(u, v, ts) \cup traversing(v, u, ts)

\* C25: after the bootstrap and after every refinement pass the triangle list
\* is consistently oriented and manifold: every triangle has three distinct
\* corners, no directed edge (u, v) is traversed by more than one triangle, and
\* every undirected edge belongs to at most two triangles
C25_OrientedManifold ==
    betweenPasses =>
        \A n \in 1 .. Len(triangles) :
            /\ Cardinality(corners(triangles[n])) = 3
            /\ \A e \in directedEdges(triangles[n]) :
                  /\ traversing(e[1], e[2], triangles) = {n}
                  /\ Cardinality(sharing(e[1], e[2], triangles)) <= 2

\* a refined mesh with an inner edge traversed once in each direction
C25_Witness ==
    /\ betweenPasses
    /\ passes = 1
    /\ Len(triangles) = 24
    /\ \E n \in 1 .. Len(triangles) :
          \E e \in directedEdges(triangles[n]) :
              /\ Cardinality(traversing(e[1], e[2], triangles)) = 1
              /\ Cardinality(traversing(e[2], e[1], triangles)) = 1

\* C26: an edge of the mesh has two border endpoints exactly when it is a
\* boundary edge, that is when it belongs to exactly one triangle; so the test
\* of line 120 sends exactly the midpoints of boundary edges onto the curve
C26_BorderEdges ==
    /\ betweenPasses =>
          \A n \in 1 .. Len(triangles) :
              \A e \in directedEdges(triangles[n]) :
                  (e[1] \in DOMAIN borderVertices /\ e[2] \in DOMAIN borderVertices)
                      <=> Cardinality(sharing(e[1], e[2], triangles)) = 1
    /\ (pc = "smooth" /\ j = 0) =>
          \A c \in centerCalls :
              c[3] \in DOMAIN borderVertices
                  <=> Cardinality(sharing(c[1], c[2], passStart.triangles)) = 1

\* a pass that made border midpoints and inner midpoints, and left a triangle
\* with a boundary edge and two inner edges
C26_Witness ==
    /\ pc = "smooth"
    /\ j = 0
    /\ passes = 2
    /\ \E c \in centerCalls : c[3] \in DOMAIN borderVertices
    /\ \E c \in centerCalls : c[3] \notin DOMAIN borderVertices
    /\ \E n \in 1 .. Len(triangles) :
          \E e \in directedEdges(triangles[n]) :
              /\ e[1] \in DOMAIN borderVertices
              /\ e[2] \in DOMAIN borderVertices
              /\ Cardinality(sharing(e[1], e[2], triangles)) = 1

RECURSIVE Pow2(_)
Pow2(k) == IF k = 0 THEN 1 ELSE 2 * Pow2(k - 1)

\* the border parameters of the mesh
borderParameters == {borderVertices[v] : v \in DOMAIN borderVertices}

\* C27: after k refinement passes there are 6 * 2^k border vertices and their
\* parameters are the fractions j / (6 * 2^k), j = 0 .. 6 * 2^k - 1: all in
\* [0, 1), no two equal, and the two endpoints of every boundary edge are
\* neighbours in the cyclic order of the parameters
C27_BorderParameters ==
    betweenPasses =>
        LET count == 6 * Pow2(passes)
        IN  /\ Cardinality(DOMAIN borderVertices) = count
            /\ borderParameters = {Norm(k, count) : k \in 0 .. count - 1}
            /\ Cardinality(borderParameters) = count
            /\ \A f \in borderParameters : f[1] >= 0 /\ f[1] < f[2]
            /\ \A n \in 1 .. Len(triangles) :
                  \A e \in directedEdges(triangles[n]) :
                      Cardinality(sharing(e[1], e[2], triangles)) = 1 =>
                          /\ e[1] \in DOMAIN borderVertices
                          /\ e[2] \in DOMAIN borderVertices
                          /\ arc(borderVertices[e[1]], borderVertices[e[2]])
                                = Norm(1, count)

\* two passes done: 24 border vertices, one of them at 23/24 next to the one
\* at 0 across the wrap
C27_Witness ==
    /\ betweenPasses
    /\ passes = 2
    /\ Cardinality(DOMAIN borderVertices) = 24
    /\ \E n \in 1 .. Len(triangles) :
          \E e \in directedEdges(triangles[n]) :
              /\ Cardinality(sharing(e[1], e[2], triangles)) = 1
              /\ {borderVertices[e[1]], borderVertices[e[2]]} = {<<23, 24>>, <<0, 1>>}

----------------------------------------------------------------------------
(* Animation (lib.tsx lines 5-50): promises settled by timers and frames *)

\* line 7
timeScale == 1000

\* the clock (performance.now(), in ms) is followed up to MaxTime
MaxTime == 1000

\* the sleep() and nextFrame() calls made from outside animate()
MaxPromises == 1

\* how far the clock moves between two tasks
FrameSteps == {250, 500}

\* how far the timestamp of a frame callback lies behind the clock (line 42)
FrameLags == {0, 500}

\* the durations (in seconds) passed to sleep() and animate()
Durations == {<<1, 2>>, <<1, 1>>}

\* duration * this.timeScale (lines 20, 35)
scaled(duration) == RMulInt(timeScale, duration)[1]

\* lines 19, 26 with the test of the flag left out
settleResolving(running) == "resolved"

\* lines 19, 26: this.running ? resolve(...) : reject(...)
settle(running) == IF running THEN "resolved" ELSE "rejected"

\* the reason of a rejection (lines 19, 26)
rejectionReason(kind) ==
    IF kind = "sleep" THEN "stopped (sleeping)" ELSE "stopped (animating)"

\* lines 6-11: the object after construction, with no promise and no animate()
\* call yet; stopped and stoppedAwaiting are history
newAnimation ==
    [running |-> TRUE, promises |-> <<>>, pc |-> "idle", awaiting |-> 0,
     duration_ms |-> 0, t0 |-> 0, t1 |-> 0, callbacks |-> <<>>,
     stopped |-> FALSE, stoppedAwaiting |-> FALSE]

\* stop() without line 14
stopNot(a, inProgress) == a

\* lines 13-15; the history notes whether an animate() call was waiting for a
\* frame, or was in a callback that is followed by another nextFrame()
stop(a, inProgress) ==
    [a EXCEPT !.running = FALSE,
              !.stopped = TRUE,
              !.stoppedAwaiting = @ \/ inProgress]

\* lines 18, 25: a new promise whose executor registered a timer or a frame
\* callback
newPromise(kind, due, owner) ==
    [kind |-> kind, state |-> "pending", due |-> due, value |-> 0,
     reason |-> "", owner |-> owner, afterStop |-> FALSE]

\* lines 17-22
sleep(a, duration, now) ==
    [a EXCEPT !.promises = Append(@, newPromise("sleep", now + scaled(duration), "caller"))]

\* lines 24-28; the frame callback runs with the next frame, not with the one
\* that is being rendered at the time of the call
nextFrame(a, owner, now) ==
    [a EXCEPT !.promises = Append(@, newPromise("frame", now, owner))]

\* nextFrame() called again by animate(): the promise it awaited is settled and
\* forgotten, the new one takes its place
nextFrameAgain(a, now) ==
    [a EXCEPT !.promises[a.awaiting] = newPromise("frame", now, "animate")]

\* lines 19, 26: the timer or frame callback of promise k runs with value t; a
\* settled promise that animate() awaits schedules its continuation
settlePromise(a, k, t) ==
    LET outcome == settle(a.running)
    IN  [a EXCEPT !.promises[k].state = outcome,
                  !.promises[k].value = IF outcome = "resolved" THEN t ELSE 0,
                  !.promises[k].reason =
                      IF outcome = "resolved" THEN ""
                      ELSE rejectionReason(a.promises[k].kind),
                  !.promises[k].afterStop = a.stopped,
                  !.pc = IF a.pc = "await" /\ a.awaiting = k THEN "resume" ELSE @]

\* lines 35-43: animate() runs up to its first await
animateStart(a, duration, now) ==
    LET b == nextFrame(a, "animate", now)
    IN  [b EXCEPT !.duration_ms = scaled(duration),
                  !.t0 = now,
                  !.t1 = now + scaled(duration),
                  !.pc = "await",
                  !.awaiting = Len(b.promises)]

\* a call of the callback, with the flag as it was then
delivered(a, lambda) ==
    [a EXCEPT !.callbacks = Append(@, [lambda |-> lambda, afterStop |-> a.stopped])]

\* lines 43-48: the continuation of animate() after the awaited promise
\* settled; a rejection leaves the function, a timestamp of t1 or later ends
\* the loop with callback(1), any other calls back and awaits the next frame.
\* stops: the callback calls stop() on this Animation
animateResume(a, stops, now) ==
    LET p == a.promises[a.awaiting]
        t == Max(p.value, a.t0)
    IN  IF p.state = "rejected" THEN [a EXCEPT !.pc = "threw"]
        ELSE IF t >= a.t1
        THEN LET b == delivered(a, <<1, 1>>)
                 c == IF stops THEN stop(b, FALSE) ELSE b
             IN  [c EXCEPT !.pc = "returned"]
        ELSE LET b == delivered(a, Norm(t - a.t0, a.duration_ms))
                 c == IF stops THEN stop(b, TRUE) ELSE b
                 d == nextFrameAgain(c, now)
             IN  [d EXCEPT !.pc = "await"]

\* the variables of the other slides, at rest
soapAtRest ==
    /\ nRefinements = 0
    /\ nSmoothings = 0
    /\ curve = "wire"
    /\ SoapInit
    /\ geometry = emptyGeometry
    /\ supplied = <<>>
    /\ lastCall = noCall
    /\ quad = idleQuad
    /\ tri = idleTri

\* no continuation is waiting: a timer, a frame or an event handler can run
inTask(a) == a.pc # "resume"

fromCaller(a) == {k \in 1 .. Len(a.promises) : a.promises[k].owner = "caller"}

AnimInit ==
    /\ soapAtRest
    /\ newton = idleNewton
    /\ show = idleShow
    /\ anim = newAnimation @@ [now |-> 0]

\* time passes between two tasks
AnimTick ==
    /\ inTask(anim)
    /\ \E s \in FrameSteps :
          /\ anim.now + s <= MaxTime
          /\ anim' = [anim EXCEPT !.now = @ + s]
    /\ UNCHANGED <<soapVars, geomVars, quad, tri, newton, show>>

\* lines 13-15, called by an event handler
AnimStop ==
    /\ inTask(anim)
    /\ anim' = stop(anim, anim.pc = "await")
    /\ UNCHANGED <<soapVars, geomVars, quad, tri, newton, show>>

\* lines 17-22, called by an event handler
AnimSleep ==
    /\ inTask(anim)
    /\ Cardinality(fromCaller(anim)) < MaxPromises
    /\ \E d \in Durations : anim' = sleep(anim, d, anim.now)
    /\ UNCHANGED <<soapVars, geomVars, quad, tri, newton, show>>

\* lines 24-28, called by an event handler
AnimNextFrame ==
    /\ inTask(anim)
    /\ Cardinality(fromCaller(anim)) < MaxPromises
    /\ anim' = nextFrame(anim, "caller", anim.now)
    /\ UNCHANGED <<soapVars, geomVars, quad, tri, newton, show>>

\* line 30, called by an event handler
AnimAnimate ==
    /\ inTask(anim)
    /\ anim.pc = "idle"
    /\ \E d \in Durations : anim' = animateStart(anim, d, anim.now)
    /\ UNCHANGED <<soapVars, geomVars, quad, tri, newton, show>>

\* line 19: the timer of a sleep() promise expires
AnimTimer ==
    /\ inTask(anim)
    /\ \E k \in 1 .. Len(anim.promises) :
          /\ anim.promises[k].kind = "sleep"
          /\ anim.promises[k].state = "pending"
          /\ anim.promises[k].due <= anim.now
          /\ anim' = settlePromise(anim, k, 0)
    /\ UNCHANGED <<soapVars, geomVars, quad, tri, newton, show>>

\* line 26: the frame callback of a nextFrame() promise runs
AnimFrame ==
    /\ inTask(anim)
    /\ \E k \in 1 .. Len(anim.promises) :
          /\ anim.promises[k].kind = "frame"
          /\ anim.promises[k].state = "pending"
          /\ anim.promises[k].due < anim.now
          /\ \E lag \in FrameLags :
                anim' = settlePromise(anim, k, Max(anim.now - lag, 0))
    /\ UNCHANGED <<soapVars, geomVars, quad, tri, newton, show>>

\* lines 43-48: the continuation of animate(), run before any other task
AnimResume ==
    /\ anim.pc = "resume"
    /\ \E stops \in BOOLEAN : anim' = animateResume(anim, stops, anim.now)
    /\ UNCHANGED <<soapVars, geomVars, quad, tri, newton, show>>

AnimNext ==
    \/ AnimTick
    \/ AnimStop
    \/ AnimSleep
    \/ AnimNextFrame
    \/ AnimAnimate
    \/ AnimTimer
    \/ AnimFrame
    \/ AnimResume

AnimSpec == AnimInit /\ [][AnimNext]_vars

\* the promises and the callbacks of the Animation keep to the stop() call
stoppedMeansRejected ==
    /\ \A k \in 1 .. Len(anim.promises) :
          anim.promises[k].afterStop =>
              /\ anim.promises[k].state = "rejected"
              /\ anim.promises[k].reason =
                    IF anim.promises[k].kind = "sleep" THEN "stopped (sleeping)"
                    ELSE "stopped (animating)"
    /\ \A n \in 1 .. Len(anim.callbacks) : ~anim.callbacks[n].afterStop
    /\ anim.stoppedAwaiting =>
          /\ anim.pc \in {"await", "resume", "threw"}
          /\ anim.pc = "resume" => anim.promises[anim.awaiting].state = "rejected"
          /\ \A n \in 1 .. Len(anim.callbacks) : anim.callbacks[n].lambda # <<1, 1>>

----------------------------------------------------------------------------
(* NewtonIteration (NewtonIteration.tsx lines 17-93): iterate() per click *)

\* line 71: for (let i = 0; i < 10; i++)
maxRounds == 10

\* the pointer-down events followed
MaxClicks == 2

\* the clock is followed up to MaxNewtonTime
MaxNewtonTime == 26000

\* the time from one animation frame to the next
NewtonFrameSteps == {250, 500}

\* lines 75: the round in which the dot of a click reaches a root of fn
\* (|p0.y| < 0.5e-3); maxRounds: in none of the rounds
Roots == {0, 1, maxRounds}

\* lines 79, 85, 86, 87: the durations of the four animate() calls of a round
phaseDurations == << <<1, 2>>, <<3, 10>>, <<3, 5>>, <<3, 10>> >>

\* lines 27-32: the dot and tangent state; positions are named by the
\* iteration and the round that computed them
initialUi ==
    [dot |-> [by |-> 0, round |-> 0, leg |-> "origin", lambda |-> <<0, 1>>],
     dotColor |-> "yellow",
     tangentOpacity |-> <<0, 1>>,
     p0 |-> <<0, 0>>,
     p1 |-> <<0, 0>>]

\* lines 22-34 at mount: no fn yet, no Animation in animation.current;
\* clicks and updaters (the iterations that set state in the last step) are
\* history
newNewton ==
    [fn |-> FALSE, now |-> 0, clicks |-> 0, current |-> 0, iterations |-> <<>>,
     ui |-> initialUi, updaters |-> {}]

\* setDot, setDotColor, setTangentOpacity, setP0, setP1 called by iteration k
set(nw, k, field, value) ==
    [nw EXCEPT !.ui[field] = value, !.updaters = @ \cup {k}]

\* an iterate() call that is over: its locals are gone, its Animation remains
ended(it, how) ==
    [pc |-> how,
     a |-> [newAnimation EXCEPT !.running = it.a.running, !.stopped = it.a.stopped],
     i |-> 0, phase |-> 0, root |-> 0]

\* a.animate(duration, ...) called by iterate(): a new call on the same object
startPhase(nw, k, phase) ==
    LET a == nw.iterations[k].a
        fresh == [a EXCEPT !.promises = <<>>, !.callbacks = <<>>, !.pc = "idle"]
    IN  [nw EXCEPT !.iterations[k].a = animateStart(fresh, phaseDurations[phase], nw.now),
                   !.iterations[k].phase = phase,
                   !.iterations[k].pc = "await"]

\* lines 71-79: the loop test and the body of a round up to its first await
enterRound(nw, k) ==
    LET it == nw.iterations[k]
    IN  IF it.i >= maxRounds
        THEN [nw EXCEPT !.iterations[k] = ended(it, "finished")]
        ELSE LET shown == set(nw, k, "dot", [by |-> k, round |-> it.i,
                                             leg |-> "start", lambda |-> <<0, 1>>])
             IN  IF it.i = it.root
                 THEN [set(shown, k, "dotColor", "red")
                          EXCEPT !.iterations[k] = ended(it, "finished")]
                 ELSE startPhase(shown, k, 1)

\* lines 79, 85, 86, 87: the callbacks passed to animate()
callback(nw, k, lambda) ==
    LET it == nw.iterations[k]
    IN  CASE it.phase = 1 ->
               set(nw, k, "dot", [by |-> k, round |-> it.i, leg |-> "down",
                                  lambda |-> lambda])
          [] it.phase = 2 -> set(nw, k, "tangentOpacity", lambda)
          [] it.phase = 3 ->
               set(nw, k, "dot", [by |-> k, round |-> it.i, leg |-> "along",
                                  lambda |-> lambda])
          [] it.phase = 4 -> set(nw, k, "tangentOpacity", RSub(<<1, 1>>, lambda))

\* lines 80-88: iterate() continues after an animate() call returned
afterPhase(nw, k) ==
    LET it == nw.iterations[k]
    IN  IF it.phase = 1
        THEN startPhase(set(set(nw, k, "p0", <<k, it.i>>), k, "p1", <<k, it.i>>), k, 2)
        ELSE IF it.phase \in {2, 3}
        THEN startPhase(nw, k, it.phase + 1)
        ELSE enterRound([nw EXCEPT !.iterations[k].i = it.i + 1], k)

\* lines 54-70: a pointer-down event calls iterate(); root: see Roots
iterate(nw, root) ==
    IF ~nw.fn THEN nw
    ELSE LET k == Len(nw.iterations) + 1
             stopped ==
                 IF nw.current = 0 THEN nw
                 ELSE [nw EXCEPT !.iterations[nw.current].a =
                           stop(@, nw.iterations[nw.current].pc = "await")]
             started ==
                 [stopped EXCEPT !.iterations =
                                     Append(@, [pc |-> "start", a |-> newAnimation,
                                                i |-> 0, phase |-> 0, root |-> root]),
                                 !.current = k]
         IN  enterRound(set(set(started, k, "tangentOpacity", <<0, 1>>),
                            k, "dotColor", "yellow"), k)

\* the frame callback of the promise iteration k awaits, and what follows from
\* it before the next task: the continuation of animate() and, when that
\* returned or threw, the continuation of iterate() (lines 79-92)
frameCallback(nw, k) ==
    LET it == nw.iterations[k]
        settled == settlePromise(it.a, it.a.awaiting, nw.now)
        resumed == animateResume(settled, FALSE, nw.now)
        n1 == [nw EXCEPT !.iterations[k].a = resumed]
    IN  IF resumed.pc = "threw"
        THEN [nw EXCEPT !.iterations[k] = ended([it EXCEPT !.a = resumed], "caught")]
        ELSE IF resumed.pc = "await"
        THEN callback(n1, k, resumed.callbacks[Len(resumed.callbacks)].lambda)
        ELSE afterPhase(callback(n1, k, <<1, 1>>), k)

\* an animation frame: the frame callbacks run in the order of their requests
RECURSIVE runFrame(_, _)
runFrame(nw, k) ==
    IF k > Len(nw.iterations) THEN nw
    ELSE runFrame(IF nw.iterations[k].pc = "await" THEN frameCallback(nw, k) ELSE nw,
                  k + 1)

NewtonInit ==
    /\ soapAtRest
    /\ anim = idleAnimation
    /\ show = idleShow
    /\ newton = newNewton

\* lines 36-52: the layout effect sets fn and the component renders again
NewtonRender ==
    /\ ~newton.fn
    /\ newton' = [newton EXCEPT !.fn = TRUE, !.updaters = {}]
    /\ UNCHANGED <<soapVars, geomVars, quad, tri, anim, show>>

\* line 121: onPointerDown={iterate}
NewtonPointerDown ==
    /\ newton.clicks < MaxClicks
    /\ \E root \in Roots :
          newton' = iterate([newton EXCEPT !.clicks = @ + 1, !.updaters = {}], root)
    /\ UNCHANGED <<soapVars, geomVars, quad, tri, anim, show>>

\* the next animation frame, with every frame callback requested before it
NewtonFrame ==
    /\ \E k \in 1 .. Len(newton.iterations) : newton.iterations[k].pc = "await"
    /\ \E s \in NewtonFrameSteps :
          /\ newton.now + s <= MaxNewtonTime
          /\ newton' = runFrame([newton EXCEPT !.now = @ + s, !.updaters = {}], 1)
    /\ UNCHANGED <<soapVars, geomVars, quad, tri, anim, show>>

NewtonNext ==
    \/ NewtonRender
    \/ NewtonPointerDown
    \/ NewtonFrame

NewtonSpec == NewtonInit /\ [][NewtonNext]_vars

\* the iterations started before the latest one
earlier == 1 .. Len(newton.iterations) - 1

\* only the latest iteration sets state; every earlier one is over or waits,
\* stopped, for its frame
onlyLatestUpdates ==
    /\ newton.updaters \subseteq {newton.current}
    /\ newton.current = Len(newton.iterations)
    /\ \A k \in earlier :
          /\ newton.iterations[k].pc \in {"await", "caught", "finished"}
          /\ newton.iterations[k].pc = "await" => ~newton.iterations[k].a.running

\* an earlier iteration that was still under way leaves through the catch
\* block with the next frame
earlierEndsCaught ==
    \A k \in earlier :
        newton.iterations[k].pc = "await" =>
            /\ newton'.iterations[k].pc \in {"await", "caught"}
            /\ newton'.now # newton.now => newton'.iterations[k].pc = "caught"

\* C29: for every interleaving of pointer-down events and animation frames at
\* most one click-started iteration keeps updating the dot and tangent state:
\* once a later pointer-down has started its iteration, an earlier iteration
\* sets no state any more and, if it was still under way, ends through the
\* caught rejection
C29_OneIteration ==
    /\ []onlyLatestUpdates
    /\ [][earlierEndsCaught]_vars

\* the first iteration was stopped in its second round and is over, the second
\* one has just set state
C29_Witness ==
    /\ Len(newton.iterations) = 2
    /\ newton.iterations[1].pc = "caught"
    /\ newton.iterations[2].pc = "await"
    /\ newton.iterations[2].i = 1
    /\ newton.updaters = {2}

----------------------------------------------------------------------------
(* SlideShow (SlideShow.tsx lines 81-131): keys, location hash, slide control *)

\* children.length is followed up to MaxSlides
MaxSlides == 3

\* hashchange events that may wait in the event queue
MaxPending == 2

\* a string is the sequence of its characters
Digits == <<"0", "1", "2", "3", "4", "5", "6", "7", "8", "9">>

HexDigits == Digits \o <<"a", "b", "c", "d", "e", "f">>

\* the value of the character c as a digit of the radix, -1 if it is none;
\* upper-case hex digits do not occur in the hashes followed here
digitValue(c, radix) ==
    LET table == IF radix = 16 THEN HexDigits ELSE Digits
    IN  IF \E d \in 1 .. Len(table) : table[d] = c
        THEN (CHOOSE d \in 1 .. Len(table) : table[d] = c) - 1
        ELSE -1

\* the number of leading characters of cs that are digits of the radix
RECURSIVE leadingDigits(_, _)
leadingDigits(cs, radix) ==
    IF cs = <<>> \/ digitValue(Head(cs), radix) < 0 THEN 0
    ELSE 1 + leadingDigits(Tail(cs), radix)

\* the value of a sequence of digits
RECURSIVE digitsValue(_, _)
digitsValue(cs, radix) ==
    IF cs = <<>> THEN 0
    ELSE radix * digitsValue(SubSeq(cs, 1, Len(cs) - 1), radix)
            + digitValue(cs[Len(cs)], radix)

RECURSIVE trimStart(_)
trimStart(cs) == IF cs # <<>> /\ Head(cs) = " " THEN trimStart(Tail(cs)) ELSE cs

NaN == [isNaN |-> TRUE, value |-> 0]

\* Number.parseInt(string) without a radix (line 116): leading white space is
\* skipped, a sign is read, "0x" selects radix 16, the longest run of digits is
\* the value and whatever follows it is ignored; no digit at all gives NaN
parseInt(cs) ==
    LET trimmed == trimStart(cs)
        signed == trimmed # <<>> /\ Head(trimmed) \in {"+", "-"}
        negative == signed /\ Head(trimmed) = "-"
        unsigned == IF signed THEN Tail(trimmed) ELSE trimmed
        hex == Len(unsigned) >= 2 /\ unsigned[1] = "0" /\ unsigned[2] \in {"x", "X"}
        radix == IF hex THEN 16 ELSE 10
        body == IF hex THEN SubSeq(unsigned, 3, Len(unsigned)) ELSE unsigned
        n == leadingDigits(body, radix)
        magnitude == digitsValue(SubSeq(body, 1, n), radix)
    IN  IF n = 0 THEN NaN
        ELSE [isNaN |-> FALSE, value |-> IF negative THEN -magnitude ELSE magnitude]

\* String(n) for an integer n (line 112)
RECURSIVE decimal(_)
decimal(n) == IF n < 10 THEN <<Digits[n + 1]>> ELSE Append(decimal(n \div 10), Digits[(n % 10) + 1])

String(n) == IF n < 0 THEN <<"-">> \o decimal(-n) ELSE decimal(n)

\* string.substring(1) (line 116)
substring1(cs) == IF cs = <<>> THEN <<>> ELSE Tail(cs)

\* what location.hash reads after the fragment was set to cs: "" for an empty
\* fragment, else "#" and the fragment
hashOf(cs) == IF cs = <<>> THEN <<>> ELSE <<"#">> \o cs

\* the fragments a user puts into the address bar
Fragments ==
    {<<>>, <<"a", "b", "c">>, <<"-", "1">>, <<"0">>, <<"2">>, <<"2", "x">>,
     <<"9", "9">>, <<"0", "x", "2">>}

\* the keys released
Keys == {"ArrowRight", "ArrowLeft", "Enter"}

\* line 99 without the lower limit
clampSlideNoAbove(nSlides, n) == Min(nSlides, n)

\* line 99
clampSlideNo(nSlides, n) == Max(1, Min(nSlides, n))

\* lines 102-111: the slide number a key asks for; undefined: the default branch
keyTarget(sh, key, ctrlKey) ==
    CASE key = "ArrowRight" -> IF ctrlKey THEN sh.nSlides ELSE sh.ref + 1
      [] key = "ArrowLeft" -> IF ctrlKey THEN 1 ELSE sh.ref - 1
      [] OTHER -> undefined

\* window.location.hash = text: a fragment that differs from the present one
\* queues a hashchange event
setHash(sh, fragment) ==
    IF hashOf(fragment) = sh.hash THEN sh
    ELSE [sh EXCEPT !.hash = hashOf(fragment), !.pending = @ + 1]

\* lines 101-113
onKeyUp(sh, key, ctrlKey) ==
    LET n == keyTarget(sh, key, ctrlKey)
    IN  IF n = undefined THEN sh
        ELSE [setHash(sh, String(clampSlideNo(sh.nSlides, n)))
                 EXCEPT !.lastKey = [key |-> key, ctrlKey |-> ctrlKey]]

\* lines 115-121
onHashChange(sh) ==
    LET parsed == parseInt(substring1(sh.hash))
        n == IF parsed.isNaN THEN 1 ELSE parsed.value
    IN  [sh EXCEPT !.slide = clampSlideNo(sh.nSlides, n)]

noKey == [key |-> "", ctrlKey |-> FALSE]

\* lines 82-95 at the first render: the control shows slide 1, the effect of
\* lines 96-131 has not run yet; lastKey is history
ShowInit ==
    /\ soapAtRest
    /\ anim = idleAnimation
    /\ newton = idleNewton
    /\ \E nSlides \in 1 .. MaxSlides :
          \E fragment \in Fragments :
              show = [pc |-> "mounting", nSlides |-> nSlides,
                      hash |-> hashOf(fragment), slide |-> 1, ref |-> 1,
                      pending |-> 0, lastKey |-> noKey]

\* lines 123-125: the effect adds the listeners and calls onHashChange()
ShowMount ==
    /\ show.pc = "mounting"
    /\ show' = [onHashChange(show) EXCEPT !.pc = "mounted"]
    /\ UNCHANGED <<soapVars, geomVars, quad, tri, anim, newton>>

\* line 95: a render copies the slide control into ref.current
ShowRender ==
    /\ show.pc = "mounted"
    /\ show.ref # show.slide
    /\ show' = [show EXCEPT !.ref = show.slide]
    /\ UNCHANGED <<soapVars, geomVars, quad, tri, anim, newton>>

\* a keyup event
ShowKeyUp ==
    /\ show.pc = "mounted"
    /\ show.pending < MaxPending
    /\ \E key \in Keys :
          \E ctrlKey \in BOOLEAN : show' = onKeyUp(show, key, ctrlKey)
    /\ UNCHANGED <<soapVars, geomVars, quad, tri, anim, newton>>

\* the user changes the fragment in the address bar
ShowEditHash ==
    /\ show.pc = "mounted"
    /\ show.pending < MaxPending
    /\ \E fragment \in Fragments :
          /\ hashOf(fragment) # show.hash
          /\ show' = [setHash(show, fragment) EXCEPT !.lastKey = noKey]
    /\ UNCHANGED <<soapVars, geomVars, quad, tri, anim, newton>>

\* a hashchange event is dispatched
ShowHashChange ==
    /\ show.pc = "mounted"
    /\ show.pending > 0
    /\ show' = [onHashChange(show) EXCEPT !.pending = @ - 1]
    /\ UNCHANGED <<soapVars, geomVars, quad, tri, anim, newton>>

ShowNext ==
    \/ ShowMount
    \/ ShowRender
    \/ ShowKeyUp
    \/ ShowEditHash
    \/ ShowHashChange

ShowSpec == ShowInit /\ [][ShowNext]_vars

\* every hashchange event has been handled
settled == show.pc = "mounted" /\ show.pending = 0

\* the text after the "#" of the location hash
fragmentNow == substring1(show.hash)

\* cs is a decimal numeral: an optional sign and digits, nothing else
isNumeral(cs) ==
    LET unsigned == IF cs # <<>> /\ Head(cs) \in {"+", "-"} THEN Tail(cs) ELSE cs
    IN  unsigned # <<>> /\ leadingDigits(unsigned, 10) = Len(unsigned)

\* the slide number is in range, and Ctrl+ArrowRight and Ctrl+ArrowLeft lead to
\* the last and to the first slide
rangeAndCtrlKeys ==
    /\ show.slide \in 1 .. show.nSlides
    /\ show.lastKey = [key |-> "ArrowRight", ctrlKey |-> TRUE] =>
          /\ show.hash = hashOf(String(show.nSlides))
          /\ settled => show.slide = show.nSlides
    /\ show.lastKey = [key |-> "ArrowLeft", ctrlKey |-> TRUE] =>
          /\ show.hash = hashOf(String(1))
          /\ settled => show.slide = 1

=============================================================================
